---------------------------- MODULE Spec2Model ----------------------------
(***************************************************************************)
(* A model of the SLED signal engine (src/sled_core.py) and of the Sales   *)
(* scan that drives it (src/pages/4_SalesMarketing.py).                    *)
(*                                                                         *)
(* Numbers.  Python floats are carried as binary fixed-point integers: a   *)
(* real x is the integer floor(x * 2^FracBits).  NaN is a value of its own *)
(* that every arithmetic step and every comparison treats as pandas and    *)
(* numpy do (it propagates, and every comparison with it is false).        *)
(* Close prices are powers of two, so that the log return of two           *)
(* consecutive closes is a whole multiple of ln 2.                         *)
(*                                                                         *)
(* A DataFrame is a function from its column names to columns, a column    *)
(* being a sequence with one cell per row.                                 *)
(***************************************************************************)
EXTENDS Integers, Sequences, FiniteSets, TLC

VARIABLES
    pc,          \* position of the caller: start, loaded, nodata, calculated, summarized, ...
    engine,      \* the SLEDEngine instance: window, lookback, entropy_bins
    df,          \* the caller's DataFrame object (calculate works on it in place)
    ret,         \* what calculate returned: None or (a reference to) df
    summary,     \* what summarize returned: None or the snapshot dict
    feed,        \* what the news source gave safe_news
    news,        \* what safe_news returned, or the exception it let through
    inputs_log,  \* st.session_state.inputs_log, newest entry first
    sales_last_scan,  \* st.session_state.sales_last_scan
    scan,        \* how the last run of the Sales scan ended
    market,      \* what the price source gave the scan for each ticker
    next_tx,     \* the number of transaction codes drawn so far
    filtered,    \* what apply_news_filter was given and what it returned
    probe,       \* a lookback window of Rolling_Std with two last values, and the Z_Trap of each
    ai,          \* the SledAI instance, the question it ran and what run returned
    cl,          \* the last call of cluster_reaction_points and its repetition
    tracker,     \* the tracker: registry, next id, the frames seen and what the last frame did
    sq,          \* the Square: its size, grid, the grid and noise of the last step, the steps taken
    acct,        \* the Accounts page: portfolio, trade_log, the handlers run and what the last one did
    concierge_log, \* session_state.concierge_log, newest first
    rooms_log,   \* session_state.rooms_log, newest first
    next_room    \* the Room_IDs drawn so far (uuid4)

vars == <<pc, engine, df, ret, summary, feed, news, inputs_log,
          sales_last_scan, scan, market, next_tx,
          filtered,
          probe,
          ai,
          cl,
          tracker,
          sq,
          acct,
          concierge_log,
          rooms_log,
          next_room>>

-----------------------------------------------------------------------------
(* Bounds of the model *)

\* fractional bits of the fixed-point numbers
FracBits == 10
\* longest run of price moves that follows the flat stretch of a series
MaxTail == 2
\* lengths of the flat stretch that opens a series: shorter than every
\* window, just short of the price-location window, as long as the
\* threshold window
ShortPrefix == 1
MidPrefix == 49
LongPrefix == 200

-----------------------------------------------------------------------------
(* Program constants *)

PriceLocWindow == 50
EntThreshWindow == 200
EntThreshPct == 85
ZTrapPhasePct == 75
BuyLocPct == 40
SellLocPct == 60
BullGateTenths == 16
BullZPct == 85
\* ln 2 in units of 2^-16: np.log of a ratio of two powers of two
Ln2Q16 == 45426

-----------------------------------------------------------------------------
(* Fixed-point arithmetic *)

FP == 2^FracBits

NaN == -(2^30)

None == [tag |-> "None"]

IsNaN(x) == x = NaN

Fill0(x) == IF IsNaN(x) THEN 0 ELSE x

RECURSIVE FracDiv(_, _, _)
FracDiv(r, d, bits) ==
    IF bits = 0 THEN 0
    ELSE IF 2 * r >= d THEN 2^(bits - 1) + FracDiv(2 * r - d, d, bits - 1)
         ELSE FracDiv(2 * r, d, bits - 1)

\* n / d for d > 0, as a fixed-point number (long division, no overflow)
FDiv(n, d) ==
    LET q == IF n >= 0 THEN n \div d ELSE -((-n + d - 1) \div d)
    IN  q * FP + FracDiv(n - q * d, d, FracBits)

\* the product of two fixed-point numbers
FMul(a, b) == (a * b) \div FP

RECURSIVE SqrtSearch(_, _, _)
SqrtSearch(v, lo, hi) ==
    IF lo >= hi THEN lo
    ELSE LET mid == (lo + hi + 1) \div 2
         IN  IF mid * mid <= v THEN SqrtSearch(v, mid, hi)
             ELSE SqrtSearch(v, lo, mid - 1)

ISqrt(v) == SqrtSearch(v, 0, 46340)

\* log2 of 1..20 in units of 2^-16
Log2Q16 ==
    << 0, 65536, 103872, 131072, 152170, 169408, 183983, 196608, 207744,
       217706, 226717, 234944, 242512, 249519, 256042, 262144, 267876,
       273280, 278392, 283242 >>

Log2FP(k) == Log2Q16[k] \div 2^(16 - FracBits)

Ln2FP == Ln2Q16 \div 2^(16 - FracBits)

\* the sum of s[lo..hi], by halving
RECURSIVE SumRange(_, _, _)
SumRange(s, lo, hi) ==
    IF lo > hi THEN 0
    ELSE IF lo = hi THEN s[lo]
    ELSE LET mid == (lo + hi) \div 2
         IN  SumRange(s, lo, mid) + SumRange(s, mid + 1, hi)

SumSeq(s) == SumRange(s, 1, Len(s))

SumTo(s, i) == SumRange(s, 1, i)

RECURSIVE MinTo(_, _)
MinTo(s, i) ==
    IF i = 1 THEN s[1]
    ELSE LET m == MinTo(s, i - 1) IN IF s[i] < m THEN s[i] ELSE m

RECURSIVE MaxTo(_, _)
MaxTo(s, i) ==
    IF i = 1 THEN s[1]
    ELSE LET m == MaxTo(s, i - 1) IN IF s[i] > m THEN s[i] ELSE m

SeqMin(s) == MinTo(s, Len(s))

SeqMax(s) == MaxTo(s, Len(s))

\* a column is an array: every cell is computed once, when the column is made
Column(f) == SubSeq(f, 1, Len(f))

-----------------------------------------------------------------------------
(* Columns and rolling windows (pandas Series.rolling with the default     *)
(* min_periods = window size: a window that is incomplete or holds a NaN   *)
(* gives NaN)                                                              *)

NumRows(d) == IF DOMAIN d = {} THEN 0 ELSE Len(d[CHOOSE c \in DOMAIN d : TRUE])

WindowRows(i, n) == (i - n + 1)..i

Complete(col, i, n) == i >= n /\ \A j \in WindowRows(i, n) : ~IsNaN(col[j])

Window(col, i, n) == SubSeq(col, i - n + 1, i)

\* sample standard deviation (ddof = 1) of a window of fixed-point numbers
Std(win) ==
    LET w  == Len(win)
        s1 == SumSeq(win)
        s2 == SumSeq([j \in 1..w |-> win[j] * win[j]])
    IN  IF w < 2 THEN NaN ELSE ISqrt((w * s2 - s1 * s1) \div (w * (w - 1)))

RollingStd(col, n) ==
    Column([i \in 1..Len(col) |-> IF Complete(col, i, n) THEN Std(Window(col, i, n)) ELSE NaN])

\* the minimum of the rows before the current one
RollingMinLagged(col, n) ==
    Column([i \in 1..Len(col) |->
              IF Complete(col, i, n) THEN SeqMin(SubSeq(col, i - n + 1, i - 1)) ELSE NaN])

RollingMin(col, n) ==
    Column([i \in 1..Len(col) |-> IF Complete(col, i, n) THEN SeqMin(Window(col, i, n)) ELSE NaN])

RollingMax(col, n) ==
    Column([i \in 1..Len(col) |-> IF Complete(col, i, n) THEN SeqMax(Window(col, i, n)) ELSE NaN])

\* np.histogram(s, bins): equal-width bins over [min, max], the maximum in
\* the last bin; a window of one value gets the range [v - 0.5, v + 0.5]
BinOf(x, mn, mx, bins) ==
    IF mn = mx THEN bins \div 2
    ELSE LET k == ((x - mn) * bins) \div (mx - mn)
         IN  IF k >= bins THEN bins - 1 ELSE k

Histogram(win, bins) ==
    LET mn == SeqMin(win)
        mx == SeqMax(win)
    IN  [b \in 0..(bins - 1) |->
            Cardinality({j \in DOMAIN win : BinOf(win[j], mn, mx, bins) = b})]

\* get_ent: Shannon entropy (base 2) of the window's histogram
get_ent(s, window, bins) ==
    IF Len(s) < window THEN NaN
    ELSE LET h   == Histogram(s, bins)
             tot == SumSeq([b \in 1..bins |-> h[b - 1]])
             hl  == SumSeq([b \in 1..bins |->
                        IF h[b - 1] > 0 THEN h[b - 1] * Log2FP(h[b - 1]) ELSE 0])
         IN  IF tot = 0 THEN 0
             ELSE (tot * Log2FP(tot) - hl) \div tot

RollingEnt(col, window, bins) ==
    Column([i \in 1..Len(col) |->
               IF Complete(col, i, window) THEN get_ent(Window(col, i, window), window, bins)
               ELSE NaN])

\* the k-th smallest cell of a window (k = 1 is the minimum)
Kth(win, k) ==
    CHOOSE v \in {win[j] : j \in DOMAIN win} :
        /\ Cardinality({j \in DOMAIN win : win[j] < v}) < k
        /\ k <= Cardinality({j \in DOMAIN win : win[j] <= v})

\* the pct-th percentile with linear interpolation (pandas' default)
Quantile(win, pct) ==
    LET n    == Len(win)
        pos  == pct * (n - 1)
        lo   == pos \div 100
        frac == pos % 100
        a    == Kth(win, lo + 1)
        b    == Kth(win, IF lo + 2 <= n THEN lo + 2 ELSE n)
    IN  a + ((b - a) * frac) \div 100

RollingQuantile(col, n, pct) ==
    Column([i \in 1..Len(col) |->
               IF Complete(col, i, n) THEN Quantile(Window(col, i, n), pct) ELSE NaN])

-----------------------------------------------------------------------------
(* SLEDEngine.calculate *)

\* a cell that holds a string instead of a number
NonNumeric == -(2^30) - 1

Ref == [tag |-> "df"]

\* the exponent of a close price (close prices are powers of two)
Lg(c) == CHOOSE k \in 0..30 : 2^k = c

\* np.log(close / close.shift(1)).fillna(0): the first row has no
\* predecessor, its NaN is filled with 0
LogReturn(close) ==
    Column([i \in 1..Len(close) |->
        IF i = 1 THEN 0 ELSE (Lg(close[i]) - Lg(close[i - 1])) * Ln2FP])

\* the normalisation without the guard on denom: 0 / 0 is NaN
NormVolUnguarded(std, rmin, rmax) ==
    IF IsNaN(std) \/ IsNaN(rmin) \/ IsNaN(rmax) \/ rmax - rmin = 0 THEN NaN
    ELSE FDiv(std - rmin, rmax - rmin)

\* np.where(denom == 0, 0, (std - r_min) / denom)
NormVol(std, rmin, rmax) ==
    IF IsNaN(std) \/ IsNaN(rmin) \/ IsNaN(rmax) THEN NaN
    ELSE IF rmax - rmin = 0 THEN 0
    ELSE FDiv(std - rmin, rmax - rmin)

\* the trap as the normalised volatility itself
ZTrapNorm(nv) == nv

ZTrap(nv) == IF IsNaN(nv) THEN NaN ELSE FP - nv

\* Norm_Vol of a Rolling_Std column: r_min, r_max, denom and the np.where
NormVolCol(rs, lookback) ==
    LET r_min == RollingMin(rs, lookback)
        r_max == RollingMax(rs, lookback)
    IN  Column([i \in 1..Len(rs) |-> NormVol(rs[i], r_min[i], r_max[i])])

\* the Z_Trap of the last row of a Rolling_Std column
LastTrap(rs, lookback) == ZTrap(NormVolCol(rs, lookback)[Len(rs)])

has_vol(d) == "Volume" \in DOMAIN d /\ SumSeq(d["Volume"]) > 0

\* entropy of the volume, or 1.5 times the entropy of the returns
SigmaCol(d, logret, window, bins) ==
    IF has_vol(d) THEN RollingEnt(d["Volume"], window, bins)
    ELSE LET e == RollingEnt(logret, window, bins)
         IN  Column([i \in 1..Len(logret) |->
                        IF IsNaN(e[i]) THEN NaN ELSE (3 * e[i]) \div 2])

\* (1 - Z_Trap) * Sigma
\* the gate as Z_Trap * Sigma
GateOfTrap(z, sigma) == IF IsNaN(z) \/ IsNaN(sigma) THEN NaN ELSE FMul(z, sigma)

GateOf(z, sigma) == IF IsNaN(z) \/ IsNaN(sigma) THEN NaN ELSE FMul(FP - z, sigma)

\* np.where(denom_p == 0, 0.5, (close - low) / denom_p)
PriceLoc(c, low, high) ==
    IF IsNaN(low) \/ IsNaN(high) THEN NaN
    ELSE IF high - low = 0 THEN FP \div 2
    ELSE FDiv(c - low, high - low)

\* the threshold of phase 0: Sigma's rolling 85th percentile
EntThresh(sigma) == RollingQuantile(sigma, EntThreshWindow, EntThreshPct)

\* phase 0 decided on the flow alone
IsPhase0Flow(z, sigma, thresh) ==
    /\ ~IsNaN(z)
    /\ ~IsNaN(sigma) /\ ~IsNaN(thresh) /\ sigma > thresh

\* (Z_Trap > 0.75) & (Sigma > ent_thresh); a comparison with NaN is false
IsPhase0(z, sigma, thresh) ==
    /\ ~IsNaN(z) /\ z * 100 > ZTrapPhasePct * FP
    /\ ~IsNaN(sigma) /\ ~IsNaN(thresh) /\ sigma > thresh

SignalBuy(phase0, pl) ==
    IF phase0 /\ ~IsNaN(pl) /\ pl * 100 < BuyLocPct * FP THEN 1 ELSE 0

SignalSell(phase0, pl) ==
    IF phase0 /\ ~IsNaN(pl) /\ pl * 100 > SellLocPct * FP THEN 1 ELSE 0

\* the score without fillna(0)
RiseScoreNoFill(g, sigma, z) ==
    IF IsNaN(g) \/ IsNaN(sigma) \/ IsNaN(z) THEN NaN
    ELSE (6 * g + 3 * sigma - 4 * z) \div 10

\* Gate * 0.6 + Sigma * 0.3 - Z_Trap * 0.4, each NaN filled with 0
RiseScore(g, sigma, z) == (6 * Fill0(g) + 3 * Fill0(sigma) - 4 * Fill0(z)) \div 10

ComputedColumns ==
    {"Log_Return", "Rolling_Std", "Norm_Vol", "Z_Trap", "Sigma", "Gate",
     "Price_Loc", "Signal_Buy", "Signal_Sell", "RiseScore_14d"}

\* calculate(df): the value returned (None, or the frame it was given) and
\* the caller's frame as the call leaves it
calculate(d, eng) ==
    IF "Close" \notin DOMAIN d
    THEN [ret |-> None, df |-> d]                       \* KeyError, swallowed
    ELSE IF \E i \in DOMAIN d["Close"] : d["Close"][i] = NonNumeric
    THEN [ret |-> None, df |-> d]                       \* TypeError, swallowed
    ELSE
    LET close  == d["Close"]
        n      == Len(close)
        lr     == LogReturn(close)
        rs     == RollingStd(lr, eng.window)
        nv     == NormVolCol(rs, eng.lookback)
        z      == Column([i \in 1..n |-> ZTrap(nv[i])])
        sigma  == SigmaCol(d, lr, eng.window, eng.entropy_bins)
        gate   == Column([i \in 1..n |-> GateOf(z[i], sigma[i])])
        low    == RollingMin(close, PriceLocWindow)
        high   == RollingMax(close, PriceLocWindow)
        pl     == Column([i \in 1..n |-> PriceLoc(close[i], low[i], high[i])])
        thresh == EntThresh(sigma)
        ph     == Column([i \in 1..n |-> IsPhase0(z[i], sigma[i], thresh[i])])
        new    == [c \in ComputedColumns |->
                    CASE c = "Log_Return"    -> lr
                      [] c = "Rolling_Std"   -> rs
                      [] c = "Norm_Vol"      -> nv
                      [] c = "Z_Trap"        -> z
                      [] c = "Sigma"         -> sigma
                      [] c = "Gate"          -> gate
                      [] c = "Price_Loc"     -> pl
                      [] c = "Signal_Buy"    -> Column([i \in 1..n |-> SignalBuy(ph[i], pl[i])])
                      [] c = "Signal_Sell"   -> Column([i \in 1..n |-> SignalSell(ph[i], pl[i])])
                      [] c = "RiseScore_14d" ->
                            Column([i \in 1..n |-> RiseScore(gate[i], sigma[i], z[i])])]
    IN  [ret |-> Ref, df |-> new @@ d]

-----------------------------------------------------------------------------
(* SLEDEngine.summarize *)

\* round(x, 4): a fixed-point number to the nearest multiple of 0.0001
\* (ties to even), in units of 0.0001; round(nan, 4) is nan
Round4(x) ==
    IF IsNaN(x) THEN NaN
    ELSE
    LET q == (x * 10000) \div FP
        r == (x * 10000) % FP
    IN  IF 2 * r > FP \/ (2 * r = FP /\ q % 2 = 1) THEN q + 1 ELSE q

SignalOf(buy, sell) == IF buy = 1 THEN "BUY" ELSE IF sell = 1 THEN "SELL" ELSE "WAIT"

\* (signal == side) and (gate >= 1.6) and (z <= 0.85)
Bullseye(signal, side, gate, z) ==
    /\ signal = side
    /\ ~IsNaN(gate) /\ gate * 10 >= BullGateTenths * FP
    /\ ~IsNaN(z) /\ z * 100 <= BullZPct * FP

\* last.get(col, default)
LastCell(d, col, default) == IF col \in DOMAIN d THEN d[col][NumRows(d)] ELSE default

\* summarize(df): Price is the close itself, the other numbers are in
\* units of 0.0001
summarize(r, d) ==
    IF r = None \/ NumRows(d) = 0 THEN None
    ELSE
    LET price  == LastCell(d, "Close", NaN)
        z      == LastCell(d, "Z_Trap", NaN)
        gate   == LastCell(d, "Gate", NaN)
        rise   == LastCell(d, "RiseScore_14d", 0)
        signal == SignalOf(LastCell(d, "Signal_Buy", 0), LastCell(d, "Signal_Sell", 0))
    IN  [ Price         |-> price,     \* a whole number: round(price, 4) is price
          Signal        |-> signal,
          Z_Trap        |-> IF IsNaN(z) THEN NaN ELSE Round4(z),
          Gate          |-> IF IsNaN(gate) THEN NaN ELSE Round4(gate),
          RiseScore_14d |-> Round4(rise),
          Bullseye_BUY  |-> Bullseye(signal, "BUY", gate, z),
          Bullseye_SELL |-> Bullseye(signal, "SELL", gate, z) ]

-----------------------------------------------------------------------------
(* The inputs of the model *)

\* the engine the Sales & Marketing page constructs
AppEngine == [window |-> 20, lookback |-> 100, entropy_bins |-> 10]

Engines ==
    { [window |-> 2, lookback |-> 2, entropy_bins |-> 2],
      [window |-> 2, lookback |-> 3, entropy_bins |-> 2],
      [window |-> 3, lookback |-> 2, entropy_bins |-> 3] }

\* moves of the price's exponent from one row to the next
Steps == {-5, -4, 0, 4}

BaseExp == 5 * MaxTail

Tails == UNION {[1..m -> Steps] : m \in 0..MaxTail}

PrefixLens == {ShortPrefix, MidPrefix, LongPrefix}

VolumeKinds == {"none", "zero", "flat", "alt", "spike"}

\* a flat stretch of p rows at 2^BaseExp, then the moves of the tail
ClosePrices(p, tail) ==
    Column([i \in 1..(p + Len(tail)) |->
        2^(BaseExp + SumTo(tail, IF i > p THEN i - p ELSE 0))])

VolumeCol(kind, n) ==
    Column([i \in 1..n |->
        CASE kind = "zero"  -> 0
          [] kind = "flat"  -> 3
          [] kind = "alt"   -> 1 + (i % 2)
          [] kind = "spike" -> IF i = n THEN 5 ELSE 1])

OkFrame(p, tail, vk) ==
    LET c == ClosePrices(p, tail)
    IN  IF vk = "none" THEN ("Close" :> c)
        ELSE ("Close" :> c) @@ ("Volume" :> VolumeCol(vk, Len(c)))

OkFrames == {OkFrame(p, t, vk) : p \in PrefixLens, t \in Tails, vk \in VolumeKinds}

NoCloseFrame == ("Open" :> <<2^BaseExp, 2^BaseExp>>)

NonNumericFrame == ("Close" :> <<NonNumeric, NonNumeric>>)

EmptyFrame == ("Close" :> <<>>) @@ ("Volume" :> <<>>)

MalformedFrames == {NoCloseFrame, NonNumericFrame, EmptyFrame}

Frames == OkFrames \cup MalformedFrames

-----------------------------------------------------------------------------
(* safe_history: the price history of a ticker, or None *)

\* a MultiIndex labels a column <<name, ticker>>: droplevel(1) keeps the
\* name, and of columns with one name the first is kept
FlattenColumns(f, multi) ==
    IF multi
    THEN [c \in {k[1] : k \in DOMAIN f} |-> f[CHOOSE k \in DOMAIN f : k[1] = c]]
    ELSE f

safe_history(o) ==
    IF o.kind = "raise" THEN None                        \* except Exception
    ELSE IF o.kind = "none" THEN None                    \* df is None
    ELSE IF NumRows(o.frame) = 0 THEN None               \* df.empty
    ELSE LET flat == FlattenColumns(o.frame, o.multi)
         IN  IF "Close" \notin DOMAIN flat THEN None ELSE flat

-----------------------------------------------------------------------------
(* safe_news: the relevant news items of a ticker.  A text is the set of   *)
(* the words it holds.                                                     *)

NEWS_KEYWORDS == {"earnings", "lawsuit"}

NEGATIVE_WORDS == {"loss", "lawsuit"}

POSITIVE_WORDS == {"beat"}

classify_news_sentiment(text) ==
    LET neg == Cardinality(NEGATIVE_WORDS \cap text)
        pos == Cardinality(POSITIVE_WORDS \cap text)
    IN  IF neg > pos THEN "NEGATIVE"
        ELSE IF pos > neg THEN "POSITIVE"
        ELSE "NEUTRAL"

Upper(t) ==
    IF t = "aapl" THEN "AAPL"
    ELSE IF t = "buy" THEN "BUY"
    ELSE IF t = "sell" THEN "SELL"
    ELSE IF t = "wait" THEN "WAIT"
    ELSE t

NewsEntry(ticker, item) ==
    [ ticker    |-> Upper(ticker),
      title     |-> item.title,
      sentiment |-> classify_news_sentiment(item.title \cup item.summary) ]

\* the value returned, or the exception that leaves safe_news: item.get of
\* an item that is no dict raises AttributeError outside the try block
safe_news(ticker, fd, limit) ==
    IF fd.kind = "raise" THEN [raised |-> FALSE, items |-> <<>>]
    ELSE
    LET raw == IF fd.kind = "none" THEN <<>> ELSE fd.items
        cut == SubSeq(raw, 1, IF Len(raw) < limit THEN Len(raw) ELSE limit)
        Relevant(item) == (item.title \cup item.summary) \cap NEWS_KEYWORDS # {}
        kept == SelectSeq(cut, Relevant)
    IN  IF \E i \in DOMAIN cut : ~cut[i].dict
        THEN [raised |-> TRUE, items |-> <<>>]
        ELSE [raised |-> FALSE,
              items  |-> [i \in 1..Len(kept) |-> NewsEntry(ticker, kept[i])]]

-----------------------------------------------------------------------------
(* apply_news_filter: the signal after the news.  The empty string stands  *)
(* for every falsy signal (None, "").                                      *)

\* n.get("sentiment", "NEUTRAL")
SentimentOf(n) == IF "sentiment" \in DOMAIN n THEN n.sentiment ELSE "NEUTRAL"

\* the filter with the cancelling sentiments swapped
apply_news_filter_swapped(sled_signal, news_items) ==
    LET sig == Upper(IF sled_signal = "" THEN "WAIT" ELSE sled_signal)
        sentiments == {SentimentOf(news_items[i]) : i \in DOMAIN news_items}
    IN  IF sig = "WAIT" THEN [signal |-> "WAIT", reason |-> "No SLED signal"]
        ELSE IF news_items = <<>> THEN [signal |-> sig, reason |-> "No relevant news"]
        ELSE IF sig = "BUY"
        THEN IF "POSITIVE" \in sentiments
             THEN [signal |-> "WAIT", reason |-> "Negative news risk (BUY cancelled)"]
             ELSE [signal |-> "BUY", reason |-> "News confirms BUY"]
        ELSE IF sig = "SELL"
        THEN IF "NEGATIVE" \in sentiments
             THEN [signal |-> "WAIT", reason |-> "Positive news conflict (SELL cancelled)"]
             ELSE [signal |-> "SELL", reason |-> "News confirms SELL"]
        ELSE [signal |-> "WAIT", reason |-> "Default"]

apply_news_filter(sled_signal, news_items) ==
    LET sig == Upper(IF sled_signal = "" THEN "WAIT" ELSE sled_signal)
        sentiments == {SentimentOf(news_items[i]) : i \in DOMAIN news_items}
    IN  IF sig = "WAIT" THEN [signal |-> "WAIT", reason |-> "No SLED signal"]
        ELSE IF news_items = <<>> THEN [signal |-> sig, reason |-> "No relevant news"]
        ELSE IF sig = "BUY"
        THEN IF "NEGATIVE" \in sentiments
             THEN [signal |-> "WAIT", reason |-> "Negative news risk (BUY cancelled)"]
             ELSE [signal |-> "BUY", reason |-> "News confirms BUY"]
        ELSE IF sig = "SELL"
        THEN IF "POSITIVE" \in sentiments
             THEN [signal |-> "WAIT", reason |-> "Positive news conflict (SELL cancelled)"]
             ELSE [signal |-> "SELL", reason |-> "News confirms SELL"]
        ELSE [signal |-> "WAIT", reason |-> "Default"]

-----------------------------------------------------------------------------
(* The Sales scan (run_scan) *)

UNIVERSE == <<"MSFT", "AAPL">>

\* the head of the loop body for one ticker: its summary, or None where the
\* loop continues
ScanSummary(o, eng) ==
    LET h == safe_history(o)
        c == calculate(h, eng)
    IN  IF h = None THEN None
        ELSE IF c.ret = None THEN None
        ELSE summarize(c.ret, c.df)

\* the rest of the loop body, from inputs_log and results so far
ScanTicker(t, sm, acc) ==
    IF sm = None THEN acc
    ELSE IF "Sigma" \notin DOMAIN sm
    THEN [acc EXCEPT !.status = "KeyError Sigma"]
    ELSE LET entry == sm @@ [ Transaction_Code |-> acc.tx + 1,
                              Input_Type       |-> "SALES_SLED_FULL",
                              Status           |-> "ARRIVED",
                              Ticker           |-> t ]
         IN  [acc EXCEPT !.log = <<entry>> \o acc.log,
                         !.results = Append(acc.results, entry),
                         !.tx = acc.tx + 1]

RECURSIVE ScanLoop(_, _, _)
ScanLoop(k, sums, acc) ==
    IF k > Len(UNIVERSE) \/ acc.status # "running" THEN acc
    ELSE ScanLoop(k + 1, sums, ScanTicker(UNIVERSE[k], sums[k], acc))

\* the summaries the loop meets, ticker by ticker
ScanSummaries(mkt, eng) ==
    [k \in DOMAIN UNIVERSE |-> ScanSummary(mkt[UNIVERSE[k]], eng)]

\* the whole handler: the loop, then sales_last_scan, then the table sorted
\* by RiseScore_14d (an empty table has no such column)
run_scan(sums, log, last, tx) ==
    LET acc == ScanLoop(1, sums,
                        [log |-> log, results |-> <<>>, status |-> "running", tx |-> tx])
    IN  IF acc.status # "running"
        THEN [log |-> acc.log, last |-> last, status |-> acc.status, tx |-> acc.tx]
        ELSE [log |-> acc.log, last |-> acc.results, tx |-> acc.tx,
              status |-> IF acc.results = <<>> THEN "KeyError RiseScore_14d"
                         ELSE "complete"]

-----------------------------------------------------------------------------
(* The intake pipeline: Doorman, Concierge, Reception and the news pull of   *)
(* the Sales page.  A text is the sequence of its words, uuid4 a counter;    *)
(* Timestamp and the keyword set _kw of a room are left out.                 *)

MaxInputs == 2

\* content[:120] and Preview[:180]
PreviewChars == 120

RoomPreviewChars == 180

\* the number of characters of a word
WordChars(w) ==
    CASE w \in {"?", "|"} -> 1
      [] w = "hi" -> 2
      [] w = "Buy" -> 3
      [] w \in {"MSFT", "AAPL", "help", "SLED", "Full", "NEWS"} -> 4
      [] w \in {"alert", "Price"} -> 5
      [] w \in {"system", "report"} -> 6
      [] w \in {"attached", "earnings"} -> 8
      [] w = "quarterly" -> 9
      [] w = "[BINARY FILE]" -> 13

\* len(text): the words and the blanks between them
Chars(text) ==
    IF text = <<>> THEN 0
    ELSE SumSeq([k \in DOMAIN text |-> WordChars(text[k])]) + Len(text) - 1

\* text[:n], cut at the end of a word
Cut(text, n) ==
    LET fits == {k \in 0..Len(text) : Chars(SubSeq(text, 1, k)) <= n}
    IN  SubSeq(text, 1, CHOOSE k \in fits : \A j \in fits : j <= k)

\* text.lower(), word by word
Lower(w) ==
    IF w = "Buy" THEN "buy"
    ELSE IF w = "Price" THEN "price"
    ELSE w

\* any(w in t for w in words)
AnyIn(words, text) == \E k \in DOMAIN text : Lower(text[k]) \in words

classify_input(text) ==
    IF AnyIn({"buy", "sell", "stock", "share", "price"}, text)
    THEN [category |-> "SALES_MARKETING", action |-> "ROUTE_TO_SALES"]
    ELSE IF AnyIn({"help", "reply", "question", "?"}, text)
    THEN [category |-> "REQUIRES_REPLY", action |-> "REVIEW"]
    ELSE IF AnyIn({"system", "error", "alert"}, text)
    THEN [category |-> "SYSTEM_SIGNAL", action |-> "ESCALATE_MANAGER"]
    ELSE IF Chars(text) < 20
    THEN [category |-> "INFORMATION_ONLY", action |-> "NONE"]
    ELSE [category |-> "UNKNOWN", action |-> "REVIEW"]

\* Doorman: the entry built for a text and an optional file
DoormanEntry(text, file, tx) ==
    LET content == CASE file.kind = "none"   -> text
                     [] file.kind = "text"   -> text \o file.words
                     [] file.kind = "binary" -> text \o <<"[BINARY FILE]">>
    IN  [ Transaction_Code |-> tx,
          Input_Type       |-> IF file.kind = "none" THEN "TEXT" ELSE "FILE",
          Status           |-> "ARRIVED",
          Preview          |-> Cut(content, PreviewChars),
          Raw              |-> content ]

\* the Process Input button: a warning, or the entry on top of inputs_log
doorman_submit(text, file, log, tx) ==
    IF text = <<>> /\ file.kind = "none" THEN [log |-> log, tx |-> tx]
    ELSE [log |-> <<DoormanEntry(text, file, tx + 1)>> \o log, tx |-> tx + 1]

\* the codes of a log
Codes(log) == {log[k].Transaction_Code : k \in DOMAIN log}

\* the entries of a log whose code is not among the given ones
NewItems(log, seen) ==
    LET Fresh(e) == e.Transaction_Code \notin seen
    IN  SelectSeq(log, Fresh)

\* Concierge, one item: classified, given a room id, put on top
ConciergeEntry(item, room) ==
    LET c == classify_input(item.Raw)
    IN  [ Transaction_Code |-> item.Transaction_Code,
          Category         |-> c.category,
          Action_Required  |-> c.action,
          Room_ID          |-> room,
          Preview          |-> item.Preview ]

RECURSIVE ConciergeLoop(_, _, _)
ConciergeLoop(items, log, room) ==
    IF items = <<>> THEN [log |-> log, room |-> room]
    ELSE ConciergeLoop(Tail(items), <<ConciergeEntry(Head(items), room + 1)>> \o log, room + 1)

\* the Concierge page taking every input, seen before or not
concierge_run_all(inputs, log, room) == ConciergeLoop(inputs, log, room)

\* the Concierge page: every input whose code is not in concierge_log yet
concierge_run(inputs, log, room) ==
    ConciergeLoop(NewItems(inputs, Codes(log)), log, room)

\* item.get(key, "")
GetOr(item, key) == IF key \in DOMAIN item THEN item[key] ELSE ""

\* Reception, one item: the room of a concierge entry
RoomOf(item) ==
    [ Room_ID          |-> item.Room_ID,
      Transaction_Code |-> item.Transaction_Code,
      Ticker           |-> Upper(GetOr(item, "Ticker")),
      Category         |-> GetOr(item, "Category"),
      Status           |-> "IN_HOUSE",
      Source           |-> IF GetOr(item, "Category") = "SALES_MARKETING"
                           THEN "SALES" ELSE "EXTERNAL",
      Preview          |-> IF "Preview" \in DOMAIN item
                           THEN Cut(item.Preview, RoomPreviewChars) ELSE <<>> ]

RECURSIVE AllocateLoop(_, _)
AllocateLoop(items, rooms) ==
    IF items = <<>> THEN rooms
    ELSE AllocateLoop(Tail(items), <<RoomOf(Head(items))>> \o rooms)

\* the Allocate New Rooms button: every concierge entry without a room yet
allocate_rooms(concierge, rooms) ==
    AllocateLoop(NewItems(concierge, Codes(rooms)), rooms)

\* the tickers of the rooms in house, sorted
tickers_in_house(rooms) ==
    LET S == {GetOr(rooms[k], "Ticker") : k \in DOMAIN rooms} \ {""}
    IN  IF "AAPL" \in S /\ "MSFT" \in S THEN <<"AAPL", "MSFT">>
        ELSE IF S = {} THEN <<>>
        ELSE <<CHOOSE t \in S : TRUE>>

\* the input a scanned ticker becomes: SLED Full | ticker | Price ...; the
\* summary's own keys are left out
ScanInput(t, tx) ==
    LET content == <<"SLED", "Full", "|", t, "|", "Price">>
    IN  [ Transaction_Code |-> tx,
          Input_Type       |-> "SALES_SLED_FULL",
          Status           |-> "ARRIVED",
          Ticker           |-> t,
          Preview          |-> Cut(content, PreviewChars),
          Raw              |-> content ]

\* the input a ticker's news becomes: NEWS | ticker | headlines
NewsInput(t, tx) ==
    LET content == <<"NEWS", "|", t, "|", "earnings">>
    IN  [ Transaction_Code |-> tx,
          Input_Type       |-> "SALES_NEWS",
          Status           |-> "ARRIVED",
          Ticker           |-> t,
          Preview          |-> Cut(content, PreviewChars),
          Raw              |-> content ]

RECURSIVE NewsLoop(_, _, _, _)
NewsLoop(tickers, feeds, log, tx) ==
    IF tickers = <<>> THEN [log |-> log, tx |-> tx]
    ELSE LET items == safe_news(Head(tickers), feeds[Head(tickers)], 6)
         IN  IF items.raised THEN [log |-> log, tx |-> tx]
             ELSE IF items.items = <<>> THEN NewsLoop(Tail(tickers), feeds, log, tx)
             ELSE NewsLoop(Tail(tickers), feeds,
                           <<NewsInput(Head(tickers), tx + 1)>> \o log, tx + 1)

\* the Pull News button: a warning without a ticker in house
run_news(rooms, feeds, log, tx) == NewsLoop(tickers_in_house(rooms), feeds, log, tx)

\* in_house(ticker) of the Accounts page
in_house(rooms, ticker) ==
    \E k \in DOMAIN rooms : Upper(GetOr(rooms[k], "Ticker")) = Upper(ticker)

-----------------------------------------------------------------------------
(* SledAI (streamlit_app.py).  Confidence and completeness are counted in  *)
(* twentieths (0.05), thresholds in twentieths too; a coherence state is    *)
(* kept as the exact fraction divergence = num / den.                       *)

\* SledAIConfig defaults
truth_threshold == 11

max_iterations == 3

probing_threshold == 12

DefaultConfig ==
    [ truth_threshold   |-> truth_threshold,
      max_iterations    |-> max_iterations,
      probing_threshold |-> probing_threshold ]

\* self.domains
Domains ==
    { "language_symbols", "geography", "relationships_empathy", "science_engineering",
      "politics_economics", "philosophy", "mathematics", "computing_logic" }

\* _detect_domains: the domains whose words the question holds, or the
\* broad default
detect_domains(topics) == IF topics = {} THEN {"language_symbols"} ELSE topics

\* _compile_background: packet.confidence and packet.completeness
Confidence(d) ==
    CASE d = "science_engineering" -> 16
      [] d = "language_symbols"    -> 15
      [] d = "geography"           -> 13
      [] OTHER                     -> 14

Completeness(d) ==
    CASE d = "science_engineering" -> 14
      [] d = "language_symbols"    -> 13
      [] d = "geography"           -> 11
      [] OTHER                     -> 12

compile_background(domains) ==
    [d \in domains |-> [confidence |-> Confidence(d), completeness |-> Completeness(d)]]

RECURSIVE SumOver(_, _)
SumOver(f, S) ==
    IF S = {} THEN 0
    ELSE LET d == CHOOSE x \in S : TRUE IN f[d] + SumOver(f, S \ {d})

\* _compute_coherence.  With n packets, c the sum of completeness and f the
\* sum of confidence (twentieths):
\*   sigma = max(1/20, 3(n+1)(120n - c)(22 - 5 it) / (40000 n))
\*   z     = min(49/50, (15n + f + 5 it n) / (50 n))
\*   divergence = sigma * z,  coherence = max(0, 1 - divergence)
compute_coherence(background, iteration) ==
    LET n  == Cardinality(DOMAIN background)
        c  == SumOver([d \in DOMAIN background |-> background[d].completeness], DOMAIN background)
        f  == SumOver([d \in DOMAIN background |-> background[d].confidence], DOMAIN background)
        sb == 3 * (n + 1) * (120 * n - c) * (22 - 5 * iteration)
        sN == IF sb < 2000 * n THEN 2000 * n ELSE sb
        zb == 15 * n + f + 5 * iteration * n
        zN == IF zb > 49 * n THEN 49 * n ELSE zb
    IN  [ sigma |-> [num |-> sN, den |-> 40000 * n],
          z     |-> [num |-> zN, den |-> 50 * n],
          num   |-> sN * zN,
          den   |-> 2000000 * n * n ]

\* coherence >= k / 20, that is divergence <= (20 - k) / 20
CoherenceAtLeast(cs, k) == cs.num <= (20 - k) * (cs.den \div 20)

\* the coherence loop: the state of the last pass computed, with its number
RECURSIVE CoherenceLoop(_, _, _)
CoherenceLoop(background, config, iteration) ==
    LET cs == compute_coherence(background, iteration)
    IN  IF CoherenceAtLeast(cs, config.truth_threshold) \/ iteration >= config.max_iterations
        THEN [state |-> cs, passes |-> iteration]
        ELSE CoherenceLoop(background, config, iteration + 1)

\* _generate_probing_questions: the questions asked, by their subject
generate_probing_questions(short, domains) ==
    <<"intent">>
    \o (IF {"science_engineering", "mathematics"} \subseteq domains THEN <<"style">> ELSE <<>>)
    \o (IF "politics_economics" \in domains THEN <<"focus">> ELSE <<>>)
    \o (IF "relationships_empathy" \in domains THEN <<"sensitivity">> ELSE <<>>)
    \o (IF "computing_logic" \in domains THEN <<"framing">> ELSE <<>>)
    \o (IF short THEN <<"detail">> ELSE <<>>)

\* SledAI.run with the decision made against truth_threshold
sled_run_truth(config, topics, short) ==
    LET domains    == detect_domains(topics)
        background == compile_background(domains)
        last       == CoherenceLoop(background, config, 1)
    IN  IF ~CoherenceAtLeast(last.state, config.truth_threshold)
        THEN [ status |-> "probing",
               probing_questions |-> generate_probing_questions(short, domains),
               coherence_state |-> last.state,
               background |-> background ]
        ELSE [ status |-> "answer", answer |-> domains,
               coherence_state |-> last.state,
               background |-> background ]

\* SledAI.run
sled_run(config, topics, short) ==
    LET domains    == detect_domains(topics)
        background == compile_background(domains)
        last       == CoherenceLoop(background, config, 1)
    IN  IF ~CoherenceAtLeast(last.state, config.probing_threshold)
        THEN [ status |-> "probing",
               probing_questions |-> generate_probing_questions(short, domains),
               coherence_state |-> last.state,
               background |-> background ]
        ELSE [ status |-> "answer", answer |-> domains,
               coherence_state |-> last.state,
               background |-> background ]

-----------------------------------------------------------------------------
(* cluster_reaction_points (core/proto_objects.py).  Points are (row, col)  *)
(* pairs, named by their index in RP_coords; eps is counted in halves.       *)

MaxPoints == 5

\* eps = 2.5
DefaultEps == 5

\* min_samples = 3
DefaultMinSamples == 3

\* np.linalg.norm(RP - RP[i], axis=1) <= eps, on squares
Dist2(p, q) == (p[1] - q[1]) * (p[1] - q[1]) + (p[2] - q[2]) * (p[2] - q[2])

WithinEps(p, q, eps) == 4 * Dist2(p, q) <= eps * eps

\* np.where(dists <= eps)[0]
Neighbours(RP, i, eps) == {j \in DOMAIN RP : WithinEps(RP[j], RP[i], eps)}

Dense(RP, i, eps, min_samples) == Cardinality(Neighbours(RP, i, eps)) >= min_samples

\* list(cluster): the members in the order the set hands them out
RECURSIVE ListOf(_, _)
ListOf(S, order) ==
    IF S = {} THEN <<>>
    ELSE LET x == IF order = "ascending"
                  THEN CHOOSE a \in S : \A b \in S : a <= b
                  ELSE CHOOSE a \in S : \A b \in S : a >= b
         IN  <<x>> \o ListOf(S \ {x}, order)

Range(q) == {q[k] : k \in DOMAIN q}

\* for idx in list(cluster): one pass over the members the pass started with
RECURSIVE GrowPass(_, _, _, _, _, _)
GrowPass(RP, eps, min_samples, members, k, cluster) ==
    IF k > Len(members) THEN cluster
    ELSE LET new == Neighbours(RP, members[k], eps)
         IN  GrowPass(RP, eps, min_samples, members, k + 1,
                      IF Cardinality(new) >= min_samples THEN cluster \cup new ELSE cluster)

\* one walk along the members in list order, those added ahead of the walk
\* included, and no second pass
RECURSIVE WalkOnce(_, _, _, _, _, _)
WalkOnce(RP, eps, min_samples, order, last, cluster) ==
    LET ahead == {j \in cluster : IF order = "ascending" THEN j > last ELSE j < last}
    IN  IF ahead = {} THEN cluster
        ELSE LET idx == ListOf(ahead, order)[1]
                 new == Neighbours(RP, idx, eps)
             IN  WalkOnce(RP, eps, min_samples, order, idx,
                          IF Cardinality(new) >= min_samples THEN cluster \cup new ELSE cluster)

GrowSinglePass(RP, eps, min_samples, order, cluster, passes) ==
    [ cluster |-> WalkOnce(RP, eps, min_samples, order,
                           IF order = "ascending" THEN 0 ELSE Len(RP) + 1, cluster),
      passes  |-> passes + 1 ]

\* growth through every member, dense or not
RECURSIVE GrowThroughAll(_, _, _, _, _, _)
GrowThroughAll(RP, eps, min_samples, order, cluster, passes) ==
    LET grown == cluster \cup UNION {Neighbours(RP, i, eps) : i \in cluster}
    IN  IF grown = cluster
        THEN [cluster |-> cluster, passes |-> passes + 1]
        ELSE GrowThroughAll(RP, eps, min_samples, order, grown, passes + 1)

\* while changed: the passes are counted
RECURSIVE GrowLoop(_, _, _, _, _, _)
GrowLoop(RP, eps, min_samples, order, cluster, passes) ==
    LET grown == GrowPass(RP, eps, min_samples, ListOf(cluster, order), 1, cluster)
    IN  IF grown = cluster
        THEN [cluster |-> cluster, passes |-> passes + 1]
        ELSE GrowLoop(RP, eps, min_samples, order, grown, passes + 1)

\* only the dense members kept
DenseMembers(RP, eps, min_samples, cluster) ==
    {i \in cluster : Dense(RP, i, eps, min_samples)}

\* what the cluster of a seed keeps: everything grown
Members(RP, eps, min_samples, cluster) == cluster

\* for i in range(len(RP)): a cluster is its seed, its members in list
\* order and the passes its growth took
RECURSIVE ClusterScan(_, _, _, _, _, _, _)
ClusterScan(RP, eps, min_samples, order, i, used, clusters) ==
    IF i > Len(RP) THEN clusters
    ELSE IF used[i] \/ ~Dense(RP, i, eps, min_samples)
    THEN ClusterScan(RP, eps, min_samples, order, i + 1, used, clusters)
    ELSE LET g == GrowLoop(RP, eps, min_samples, order, Neighbours(RP, i, eps), 0)
             c == Members(RP, eps, min_samples, g.cluster)
         IN  ClusterScan(RP, eps, min_samples, order, i + 1,
                         [j \in DOMAIN RP |-> used[j] \/ j \in c],
                         Append(clusters, [ seed    |-> i,
                                            members |-> ListOf(c, order),
                                            passes  |-> g.passes ]))

cluster_reaction_points(RP, eps, min_samples, order) ==
    IF Len(RP) = 0 THEN <<>>
    ELSE ClusterScan(RP, eps, min_samples, order, 1, [j \in DOMAIN RP |-> FALSE], <<>>)

\* RP[cluster]: the coordinates a cluster is returned as
Coordinates(RP, c) == [k \in DOMAIN c.members |-> RP[c.members[k]]]

-----------------------------------------------------------------------------
(* The proto-object tracker: advance_frame(current_clusters, registry,       *)
(* next_id, dist_thresh).  A centroid is kept as the sums of its members'    *)
(* coordinates and their number; distances are compared on squares.          *)

MaxFrames == 5

\* dist_thresh, in halves like eps: twice the default clustering radius
DistThresh == 2 * DefaultEps

\* step 1: the mean coordinate of a cluster
Centroid(points) ==
    [ r |-> SumTo([k \in DOMAIN points |-> points[k][1]], Len(points)),
      c |-> SumTo([k \in DOMAIN points |-> points[k][2]], Len(points)),
      n |-> Len(points) ]

\* the squared Euclidean distance of two centroids as a fraction
CentroidDist2(a, b) ==
    [ num |-> (a.r * b.n - b.r * a.n) * (a.r * b.n - b.r * a.n)
                  + (a.c * b.n - b.c * a.n) * (a.c * b.n - b.c * a.n),
      den |-> (a.n * b.n) * (a.n * b.n) ]

FracLess(x, y) == x.num * y.den < y.num * x.den

\* step 3: distance <= dist_thresh
WithinThresh(a, b, dist_thresh) ==
    LET d == CentroidDist2(a, b) IN 4 * d.num <= dist_thresh * dist_thresh * d.den

\* the first cluster not yet claimed, near or far
FirstFree(centroid, clusters, claimed) ==
    LET free == DOMAIN clusters \ claimed
    IN  IF free = {} THEN 0 ELSE CHOOSE k \in free : \A j \in free : k <= j

\* step 2: the closest cluster not yet claimed, the first of them on a tie;
\* 0 when every cluster is claimed
Closest(centroid, clusters, claimed) ==
    LET free == DOMAIN clusters \ claimed
        d(k) == CentroidDist2(centroid, Centroid(clusters[k]))
    IN  IF free = {} THEN 0
        ELSE CHOOSE k \in free :
                 \A j \in free : FracLess(d(k), d(j)) \/ (~FracLess(d(j), d(k)) /\ k <= j)

\* steps 2 to 4, the previous objects in registry order: m is the state of
\* the matching: the clusters claimed, the cluster each object claimed (0 for
\* none), the objects kept, the annotations
RECURSIVE MatchObjects(_, _, _, _, _)
MatchObjects(registry, i, clusters, dist_thresh, m) ==
    IF i > Len(registry) THEN m
    ELSE LET obj == registry[i]
             k   == Closest(obj.centroid, clusters, m.claimed)
         IN  IF k # 0 /\ WithinThresh(obj.centroid, Centroid(clusters[k]), dist_thresh)
             THEN MatchObjects(registry, i + 1, clusters, dist_thresh,
                      [ claimed     |-> m.claimed \cup {k},
                        claims      |-> Append(m.claims, k),
                        registry    |-> Append(m.registry,
                                               [ id |-> obj.id, age |-> obj.age + 1,
                                                 centroid |-> Centroid(clusters[k]),
                                                 member_points |-> clusters[k] ]),
                        annotations |-> Append(m.annotations,
                                               [kind |-> "survive", points |-> clusters[k]]),
                        died        |-> m.died ])
             ELSE MatchObjects(registry, i + 1, clusters, dist_thresh,
                      [ m EXCEPT !.claims = Append(@, 0),
                                 !.annotations =
                                     Append(@, [kind |-> "die", points |-> obj.member_points]),
                                 !.died = @ \cup {obj.id} ])

\* the lowest id no live object holds
LowestFree(registry, next_id) ==
    CHOOSE n \in 0..Len(registry) : \A k \in DOMAIN registry : registry[k].id # n

\* the next unused id
NextUnused(registry, next_id) == next_id

\* step 5: the clusters nobody claimed, in frame order
RECURSIVE Births(_, _, _, _)
Births(clusters, k, claimed, t) ==
    IF k > Len(clusters) THEN t
    ELSE IF k \in claimed THEN Births(clusters, k + 1, claimed, t)
    ELSE LET id == NextUnused(t.registry, t.next_id)
         IN  Births(clusters, k + 1, claimed,
                 [ registry    |-> Append(t.registry,
                                          [ id |-> id, age |-> 1,
                                            centroid |-> Centroid(clusters[k]),
                                            member_points |-> clusters[k] ]),
                   annotations |-> Append(t.annotations,
                                          [kind |-> "birth", points |-> clusters[k]]),
                   next_id     |-> id + 1,
                   born        |-> t.born \cup {id} ])

\* survivors keep their age
advance_frame_no_ageing(current_clusters, registry, next_id, dist_thresh) ==
    LET m == MatchObjects(registry, 1, current_clusters, dist_thresh,
                          [ claimed |-> {}, claims |-> <<>>, registry |-> <<>>,
                            annotations |-> <<>>, died |-> {} ])
        t == Births(current_clusters, 1, m.claimed,
                    [ registry |-> m.registry, annotations |-> m.annotations,
                      next_id |-> next_id, born |-> {} ])
    IN  [ registry    |-> [k \in DOMAIN t.registry |->
                              IF t.registry[k].id \in t.born THEN t.registry[k]
                              ELSE [t.registry[k] EXCEPT !.age = @ - 1]],
          annotations |-> t.annotations, next_id |-> t.next_id,
          born |-> t.born, died |-> m.died, claims |-> m.claims ]

\* born and died name the ids of the frame's birth and die events, claims
\* the cluster each previous object claimed
advance_frame(current_clusters, registry, next_id, dist_thresh) ==
    LET m == MatchObjects(registry, 1, current_clusters, dist_thresh,
                          [ claimed |-> {}, claims |-> <<>>, registry |-> <<>>,
                            annotations |-> <<>>, died |-> {} ])
        t == Births(current_clusters, 1, m.claimed,
                    [ registry |-> m.registry, annotations |-> m.annotations,
                      next_id |-> next_id, born |-> {} ])
    IN  [ registry |-> t.registry, annotations |-> t.annotations, next_id |-> t.next_id,
          born |-> t.born, died |-> m.died, claims |-> m.claims ]

-----------------------------------------------------------------------------
(* Square (core/square.py).  A cell is counted in units of 1 / CellUnit,   *)
(* the kernel in twentieths.                                                *)

CellUnit == 100

MaxSteps == 3

\* kernel, times 20, indexed 1..3 x 1..3
Kernel == << <<1, 2, 1>>, <<2, 8, 2>>, <<1, 2, 1>> >>

\* np.pad(grid, 1, mode="constant"): a border of zeros
PadZero(grid, size) ==
    [i \in 1..(size + 2) |->
        [j \in 1..(size + 2) |->
            IF i \in 2..(size + 1) /\ j \in 2..(size + 1) THEN grid[i - 1][j - 1] ELSE 0]]

\* np.pad(grid, 1, mode="wrap"): the last row before the first, the first
\* after the last, and the same for columns
Pad(grid, size) ==
    LET wrap(k) == IF k = 1 THEN size ELSE IF k = size + 2 THEN 1 ELSE k - 1
    IN  [i \in 1..(size + 2) |-> [j \in 1..(size + 2) |-> grid[wrap(i)][wrap(j)]]]

\* np.sum(padded[i:i+3, j:j+3] * kernel), times 20
PatchSum(padded, i, j) ==
    SumTo([k \in 1..9 |->
              LET a == ((k - 1) \div 3) + 1
                  b == ((k - 1) % 3) + 1
              IN  padded[i + a - 1][j + b - 1] * Kernel[a][b]], 9)

\* np.clip(x, 0, 1)
Clip(x) == IF x < 0 THEN 0 ELSE IF x > CellUnit THEN CellUnit ELSE x

\* Square.step with the noise field drawn
SquareStepGrid(grid, size, noise) ==
    LET padded == Pad(grid, size)
    IN  [i \in 1..size |->
            [j \in 1..size |-> Clip((PatchSum(padded, i, j) \div 20) + noise[i][j])]]

-----------------------------------------------------------------------------
(* The Accounts page (pages/5_Accounts.py).  Quantities are counted in      *)
(* 1 / QtyUnit of a share, prices in whole price units.                      *)

QtyUnit == 2

MaxOps == 2

\* the rows of the portfolio that hold a ticker
RowsOf(portfolio, t) == {k \in DOMAIN portfolio : portfolio[k].Ticker = t}

\* df[df["Ticker"] != ticker]
RECURSIVE Without(_, _)
Without(portfolio, t) ==
    IF portfolio = <<>> THEN <<>>
    ELSE IF Head(portfolio).Ticker = t THEN Without(Tail(portfolio), t)
    ELSE <<Head(portfolio)>> \o Without(Tail(portfolio), t)

\* portfolio_df: Ticker upper-cased, Qty and Avg_Price numeric
portfolio_df(portfolio) ==
    [k \in DOMAIN portfolio |-> [portfolio[k] EXCEPT !.Ticker = Upper(@)]]

\* the position kept when the quantity reaches zero
upsert_keeps_flat(portfolio, ticker, qty_delta, px) ==
    LET t    == Upper(ticker)
        df0  == portfolio_df(portfolio)
        held == RowsOf(df0, t)
    IN  IF held # {}
        THEN LET row     == df0[CHOOSE k \in held : \A j \in held : k <= j]
                 new_qty == row.Qty + qty_delta
                 new_avg == IF qty_delta > 0
                            THEN ((row.Qty * row.Avg_Price) + (qty_delta * px)) \div new_qty
                            ELSE row.Avg_Price
             IN  IF new_qty < 0 THEN Without(df0, t)
                 ELSE [k \in DOMAIN df0 |->
                          IF k \in held
                          THEN [df0[k] EXCEPT !.Qty = new_qty, !.Avg_Price = new_avg]
                          ELSE df0[k]]
        ELSE IF qty_delta > 0
        THEN Append(df0, [Ticker |-> t, Qty |-> qty_delta, Avg_Price |-> px])
        ELSE df0

\* upsert; Date_Added, a time stamp, is left out
upsert(portfolio, ticker, qty_delta, px) ==
    LET t    == Upper(ticker)
        df0  == portfolio_df(portfolio)
        held == RowsOf(df0, t)
    IN  IF held # {}
        THEN LET row     == df0[CHOOSE k \in held : \A j \in held : k <= j]
                 new_qty == row.Qty + qty_delta
                 new_avg == IF qty_delta > 0
                            THEN ((row.Qty * row.Avg_Price) + (qty_delta * px)) \div new_qty
                            ELSE row.Avg_Price
             IN  IF new_qty <= 0 THEN Without(df0, t)
                 ELSE [k \in DOMAIN df0 |->
                          IF k \in held
                          THEN [df0[k] EXCEPT !.Qty = new_qty, !.Avg_Price = new_avg]
                          ELSE df0[k]]
        ELSE IF qty_delta > 0
        THEN Append(df0, [Ticker |-> t, Qty |-> qty_delta, Avg_Price |-> px])
        ELSE df0

\* log_trade: trade_log.insert(0, ...); time stamp and reason left out
log_trade(trade_log, action, ticker, qty, px) ==
    <<[Action |-> action, Ticker |-> Upper(ticker), Qty |-> qty, Price |-> px]>> \o trade_log

\* live_price: the last close of the ticker's history, NaN when
\* safe_history gives none
live_price(ticker) == IF ticker = "MSFT" THEN 200 ELSE NaN

\* int(x) for x >= 0
IntPart(x) == (x \div QtyUnit) * QtyUnit

Min2(a, b) == IF a < b THEN a ELSE b

\* the tickers held
Positions(portfolio) == {portfolio[k].Ticker : k \in DOMAIN portfolio}

\* current_qty
CurrentQty(portfolio, ticker) ==
    LET p_now == portfolio_df(portfolio)
        held  == RowsOf(p_now, ticker)
    IN  IF held = {} THEN 0 ELSE p_now[CHOOSE k \in held : \A j \in held : k <= j].Qty

\* the room counted without what is held
AllowedGross(limits, current_qty) == limits.max_qty_per_ticker * QtyUnit

\* allowed = max_qty_per_ticker - current_qty
Allowed(limits, current_qty) == limits.max_qty_per_ticker * QtyUnit - current_qty

\* the body of the loop for one row of the plan; x is the state of the run:
\* portfolio, trade_log, open_positions, actions_done, and the trades done
\* with what was held when each was made
ExecuteRow(row, limits, x) ==
    LET ticker == row.Ticker
        action == row.Action
        qty    == row.Qty
        px     == IF IsNaN(row.Price) THEN live_price(ticker) ELSE row.Price
        current_qty == CurrentQty(x.portfolio, ticker)
        Trade(act, q, open) ==
            [ portfolio      |-> upsert(x.portfolio, ticker, IF act = "BUY" THEN q ELSE 0 - q, px),
              trade_log      |-> log_trade(x.trade_log, act, ticker,
                                           IF act = "BUY" THEN q ELSE 0 - q, px),
              open_positions |-> open,
              actions_done   |-> x.actions_done + 1,
              trades         |-> Append(x.trades,
                                        [ Action |-> act, Ticker |-> ticker, Qty |-> q,
                                          held |-> x.portfolio ]) ]
    IN  IF IsNaN(px) THEN x
        ELSE IF /\ action = "BUY"
                /\ ticker \notin x.open_positions
                /\ Cardinality(x.open_positions) >= limits.max_positions
        THEN x
        ELSE IF action = "BUY"
        THEN LET allowed   == Allowed(limits, current_qty)
                 qty_to_do == Min2(qty, IntPart(allowed))
             IN  IF allowed <= 0 \/ qty_to_do <= 0 THEN x
                 ELSE Trade("BUY", qty_to_do, x.open_positions \cup {ticker})
        ELSE IF action = "SELL"
        THEN LET qty_to_do == Min2(IntPart(qty), IntPart(current_qty))
             IN  IF current_qty <= 0 \/ qty_to_do <= 0 THEN x
                 ELSE LET after == upsert(x.portfolio, ticker, 0 - qty_to_do, px)
                      IN  Trade("SELL", qty_to_do,
                                IF RowsOf(portfolio_df(after), ticker) = {}
                                THEN x.open_positions \ {ticker}
                                ELSE x.open_positions)
        ELSE x

\* for _, row in plan.iterrows()
RECURSIVE ExecuteRows(_, _, _, _)
ExecuteRows(plan, k, limits, x) ==
    IF k > Len(plan) \/ x.actions_done >= limits.max_actions_per_run THEN x
    ELSE ExecuteRows(plan, k + 1, limits, ExecuteRow(plan[k], limits, x))

execute_plan(plan, limits, portfolio, trade_log) ==
    LET x0 == [ portfolio |-> portfolio, trade_log |-> trade_log,
                open_positions |-> Positions(portfolio_df(portfolio)),
                actions_done |-> 0, trades |-> <<>> ]
    IN  IF plan = <<>> THEN x0 ELSE ExecuteRows(plan, 1, limits, x0)

-----------------------------------------------------------------------------
(* What the sources give *)

MaxNews == 2

\* Rolling_Std values: the multiples of StdStep up to MaxStdLevel * StdStep
MaxStdLevel == 4

StdStep == 37

StdLevels == {k * StdStep : k \in 0..MaxStdLevel}

NewsItems ==
    {[dict |-> FALSE, title |-> {}, summary |-> {}]}
    \cup {[dict |-> TRUE, title |-> t, summary |-> sm] :
            t \in SUBSET {"earnings", "lawsuit", "loss"}, sm \in {{}, {"beat"}}}

NewsFeeds ==
    {[kind |-> "raise", items |-> <<>>], [kind |-> "none", items |-> <<>>]}
    \cup {[kind |-> "items", items |-> it] : it \in UNION {[1..m -> NewsItems] : m \in 1..MaxNews}}

ProviderFrames ==
    {OkFrame(ShortPrefix, t, vk) : t \in Tails, vk \in {"none", "alt"}}
    \cup MalformedFrames \cup {<<>>}

\* the frame with every column labelled <<name, ticker>>
MultiIndexed(f) == [k \in {<<c, "T">> : c \in DOMAIN f} |-> f[k[1]]]

ProviderOutcomes ==
    {[kind |-> "raise", frame |-> <<>>, multi |-> FALSE],
     [kind |-> "none", frame |-> <<>>, multi |-> FALSE]}
    \cup {[kind |-> "frame", frame |-> f, multi |-> FALSE] : f \in ProviderFrames}
    \cup {[kind |-> "frame", frame |-> MultiIndexed(f), multi |-> TRUE] : f \in ProviderFrames}

ScanOutcomes ==
    {[kind |-> "raise", frame |-> <<>>, multi |-> FALSE],
     [kind |-> "none", frame |-> <<>>, multi |-> FALSE]}
    \cup {[kind |-> "frame", frame |-> f, multi |-> FALSE] :
            f \in MalformedFrames \cup {OkFrame(ShortPrefix, <<>>, "none")}}

FilterSignals == {"", "WAIT", "BUY", "SELL", "buy", "sell", "wait", "HOLD"}

\* what safe_news hands on: dicts with a sentiment, and a dict without one
FilterItems ==
    {[title |-> {}, sentiment |-> sn] : sn \in {"NEGATIVE", "POSITIVE", "NEUTRAL"}}
    \cup {[title |-> {}]}

FilterNews == UNION {[1..m -> FilterItems] : m \in 0..MaxNews}

\* configurations: the default, and ones with fewer passes or other thresholds
Configs ==
    { [ truth_threshold |-> t, max_iterations |-> m, probing_threshold |-> q ] :
        t \in {truth_threshold, probing_threshold + 1}, m \in 1..max_iterations,
        q \in {probing_threshold, probing_threshold + 4} }

\* what the Doorman is handed: nothing, a text for each category of the
\* Concierge, a text file, a file that cannot be read
NoFile == [kind |-> "none", words |-> <<>>]

DoormanInputs ==
    { [text |-> <<>>, file |-> NoFile],
      [text |-> <<"Buy", "MSFT">>, file |-> NoFile],
      [text |-> <<"help", "?">>, file |-> NoFile],
      [text |-> <<>>, file |-> [kind |-> "text", words |-> <<"system", "alert">>]],
      [text |-> <<"hi">>, file |-> [kind |-> "binary", words |-> <<>>]],
      [text |-> <<"quarterly", "report", "attached">>, file |-> NoFile] }

\* the feeds the news pull may meet
PulledFeeds ==
    { [kind |-> "none", items |-> <<>>],
      [kind |-> "items",
       items |-> <<[dict |-> TRUE, title |-> {"earnings"}, summary |-> {}]>>] }

\* a session whose inputs_log holds entries of the Sales page: a scan entry,
\* a news entry on top of a scan entry
SalesSessions ==
    { <<ScanInput("MSFT", 1)>>,
      <<NewsInput("AAPL", 2), ScanInput("MSFT", 1)>>,
      <<ScanInput("AAPL", 2), ScanInput("MSFT", 1)>> }

\* reaction point coordinates, and the lists of them
Cells == {<<0, c>> : c \in 0..3}

\* two groups of three points with one point between them, within the smaller
\* radius of one point of each group only
BridgedGroups == <<<<0, 0>>, <<0, 0>>, <<0, 1>>, <<0, 2>>, <<0, 3>>, <<0, 4>>, <<0, 4>>>>

PointLists == UNION {[1..n -> Cells] : n \in 0..MaxPoints} \cup {BridgedGroups}

\* (eps, min_samples): the defaults, a smaller radius, a higher density floor
ClusterParams == {<<DefaultEps, DefaultMinSamples>>, <<2, DefaultMinSamples>>, <<2, DefaultMinSamples + 1>>}

ListOrders == {"ascending", "descending"}

\* the reaction points of a frame: none, one group, a second group near
\* enough to match it and far enough to be a cluster of its own, both groups,
\* a group out of the first one's reach
GroupA == <<<<0, 0>>, <<0, 1>>, <<0, 2>>>>

GroupD == <<<<4, 0>>, <<4, 1>>, <<4, 2>>>>

GroupC == <<<<6, 0>>, <<6, 1>>, <<6, 2>>>>

FramePoints == {<<>>, GroupA, GroupD, GroupD \o GroupA, GroupC}

\* the current-frame clusters of a frame's reaction points
FrameClusters(RP) ==
    LET cs == cluster_reaction_points(RP, DefaultEps, DefaultMinSamples, "ascending")
    IN  [k \in DOMAIN cs |-> Coordinates(RP, cs[k])]

\* Square(size): small sizes; at 3 a wrapped border differs from every
\* other padding
SquareSizes == {2, 3}

\* np.random.rand(size, size), values in [0, 1): flat fields, a spike in the
\* corner, a ramp
InitialGrids(size) ==
    { [i \in 1..size |-> [j \in 1..size |-> 0]],
      [i \in 1..size |-> [j \in 1..size |-> CellUnit - 1]],
      [i \in 1..size |-> [j \in 1..size |-> IF i = 1 /\ j = 1 THEN CellUnit - 1 ELSE 0]],
      [i \in 1..size |-> [j \in 1..size |-> ((i - 1) * size + j) * (CellUnit \div 10)]] }

\* np.random.normal(0, noise, shape): none, far above, far below, a little
\* up and down from cell to cell
NoiseFields(size) ==
    { [i \in 1..size |-> [j \in 1..size |-> 0]],
      [i \in 1..size |-> [j \in 1..size |-> 2 * CellUnit]],
      [i \in 1..size |-> [j \in 1..size |-> 0 - 2 * CellUnit]],
      [i \in 1..size |-> [j \in 1..size |-> IF (i + j) % 2 = 0 THEN 3 ELSE 0 - 3]] }

\* the manual entry form: ticker as typed (or none), quantity (12 shares or
\* half a share, bought or sold), price (or none)
ManualTickers == {"", "MSFT", "aapl"}

ManualQtys == {0 - 12 * QtyUnit, 0 - 1, 1, 12 * QtyUnit}

ManualPrices == {0, 100, 200}

\* the rows of an action plan: build_action_plan sizes every row from a
\* base of 10 shares, takes the price from the scan (missing when the scan
\* had none), and sorts the rows by Action
PlanRows ==
    [ Ticker : {"MSFT", "AAPL"}, Action : {"BUY", "SELL", "WAIT"},
      Qty : {10 * QtyUnit}, Price : {100, NaN} ]

ActionRank(a) == IF a = "BUY" THEN 1 ELSE IF a = "SELL" THEN 2 ELSE 3

Plans ==
    {<<>>} \cup {<<r>> : r \in PlanRows}
           \cup { q \in PlanRows \X PlanRows :
                      /\ q[1].Ticker # q[2].Ticker
                      /\ ActionRank(q[1].Action) <= ActionRank(q[2].Action) }

\* the risk limits: the defaults, and each one in turn set low
DefaultLimits == [max_positions |-> 12, max_qty_per_ticker |-> 200, max_actions_per_run |-> 10]

RiskLimits ==
    { DefaultLimits,
      [DefaultLimits EXCEPT !.max_positions = 1],
      [DefaultLimits EXCEPT !.max_qty_per_ticker = 10],
      [DefaultLimits EXCEPT !.max_actions_per_run = 1] }

-----------------------------------------------------------------------------
(* The state machine *)

Init ==
    /\ pc = "start"
    /\ engine \in Engines
    /\ df = None
    /\ ret = None
    /\ summary = None
    /\ feed = None
    /\ news = None
    /\ inputs_log = <<>>
    /\ sales_last_scan = <<>>
    /\ scan = "idle"
    /\ market = None
    /\ next_tx = 0
    /\ filtered = None
    /\ probe = None
    /\ ai = None
    /\ cl = None
    /\ tracker = [ registry |-> <<>>, next_id |-> 0, seen |-> <<>>, annotations |-> <<>>,
                   born |-> {}, died |-> {}, prev |-> <<>>, claims |-> <<>>,
                   issued |-> {}, retired |-> {} ]
    /\ sq = None
    /\ acct = [portfolio |-> <<>>, trade_log |-> <<>>, ops |-> 0, last |-> None]
    /\ concierge_log = <<>>
    /\ rooms_log = <<>>
    /\ next_room = 0

\* a caller hands the engine a frame of its own
LoadFrame ==
    /\ pc = "start"
    /\ \E f \in Frames : df' = f
    /\ pc' = "loaded"
    /\ UNCHANGED <<engine, ret, summary, feed, news, inputs_log, sales_last_scan,
                   scan, market, next_tx,
                   filtered,
                   probe,
                   ai,
                   cl,
                   tracker,
                   sq,
                   acct,
                   concierge_log,
                   rooms_log,
                   next_room>>

\* a caller asks safe_history for the frame
SafeHistory ==
    /\ pc = "start"
    /\ \E o \in ProviderOutcomes :
          /\ df' = safe_history(o)
          /\ pc' = IF safe_history(o) = None THEN "nodata" ELSE "loaded"
    /\ UNCHANGED <<engine, ret, summary, feed, news, inputs_log, sales_last_scan,
                   scan, market, next_tx,
                   filtered,
                   probe,
                   ai,
                   cl,
                   tracker,
                   sq,
                   acct,
                   concierge_log,
                   rooms_log,
                   next_room>>

Calculate ==
    /\ pc = "loaded"
    /\ LET r == calculate(df, engine)
       IN  df' = r.df /\ ret' = r.ret
    /\ pc' = "calculated"
    /\ UNCHANGED <<engine, summary, feed, news, inputs_log, sales_last_scan,
                   scan, market, next_tx,
                   filtered,
                   probe,
                   ai,
                   cl,
                   tracker,
                   sq,
                   acct,
                   concierge_log,
                   rooms_log,
                   next_room>>

Summarize ==
    /\ pc = "calculated"
    /\ summary' = summarize(ret, df)
    /\ pc' = "summarized"
    /\ UNCHANGED <<engine, df, ret, feed, news, inputs_log, sales_last_scan,
                   scan, market, next_tx,
                   filtered,
                   probe,
                   ai,
                   cl,
                   tracker,
                   sq,
                   acct,
                   concierge_log,
                   rooms_log,
                   next_room>>

SafeNews ==
    /\ pc = "start"
    /\ \E fd \in NewsFeeds, t \in {"MSFT", "aapl"}, limit \in {1, MaxNews} :
          /\ feed' = fd
          /\ news' = safe_news(t, fd, limit)
    /\ pc' = "news"
    /\ UNCHANGED <<engine, df, ret, summary, inputs_log, sales_last_scan,
                   scan, market, next_tx,
                   filtered,
                   probe,
                   ai,
                   cl,
                   tracker,
                   sq,
                   acct,
                   concierge_log,
                   rooms_log,
                   next_room>>

RunScan ==
    /\ pc = "start"
    /\ \E m \in [{UNIVERSE[k] : k \in DOMAIN UNIVERSE} -> ScanOutcomes] :
       \E sums \in {ScanSummaries(m, engine)} :
          LET r == run_scan(sums, inputs_log, sales_last_scan, next_tx)
          IN  /\ market' = m
              /\ inputs_log' = r.log
              /\ sales_last_scan' = r.last
              /\ scan' = r.status
              /\ next_tx' = r.tx
    /\ pc' = "scanned"
    /\ UNCHANGED <<engine, df, ret, summary, feed, news,
                   filtered,
                   probe,
                   ai,
                   cl,
                   tracker,
                   sq,
                   acct,
                   concierge_log,
                   rooms_log,
                   next_room>>

ApplyNewsFilter ==
    /\ pc = "start"
    /\ \E sg \in FilterSignals, items \in FilterNews :
          filtered' = [signal |-> sg, news |-> items, out |-> apply_news_filter(sg, items)]
    /\ pc' = "filtered"
    /\ UNCHANGED <<engine, df, ret, summary, feed, news, inputs_log, sales_last_scan,
                   scan, market, next_tx,
                   probe,
                   ai,
                   cl,
                   tracker,
                   sq,
                   acct,
                   concierge_log,
                   rooms_log,
                   next_room>>

\* the trap of one lookback window of Rolling_Std under two values of its
\* most recent row
TrapProbe ==
    /\ pc = "start"
    /\ \E others \in [1..(engine.lookback - 1) -> StdLevels], lo \in StdLevels, hi \in StdLevels :
          /\ lo < hi
          /\ probe' = [ others |-> others, lo |-> lo, hi |-> hi,
                        z_lo |-> LastTrap(Append(others, lo), engine.lookback),
                        z_hi |-> LastTrap(Append(others, hi), engine.lookback) ]
    /\ pc' = "probed"
    /\ UNCHANGED <<engine, df, ret, summary, feed, news, inputs_log, sales_last_scan,
                   scan, market, next_tx, filtered,
                   ai,
                   cl,
                   tracker,
                   sq,
                   acct,
                   concierge_log,
                   rooms_log,
                   next_room>>

SledRun ==
    /\ pc = "start"
    /\ \E config \in Configs, topics \in SUBSET Domains, short \in BOOLEAN :
          ai' = [ config |-> config, topics |-> topics, short |-> short,
                  interaction_count |-> 1,
                  passes |-> CoherenceLoop(compile_background(detect_domains(topics)),
                                           config, 1).passes,
                  result |-> sled_run(config, topics, short) ]
    /\ pc' = "ran"
    /\ UNCHANGED <<engine, df, ret, summary, feed, news, inputs_log, sales_last_scan,
                   scan, market, next_tx, filtered, probe,
                   cl,
                   tracker,
                   sq,
                   acct,
                   concierge_log,
                   rooms_log,
                   next_room>>

Cluster ==
    /\ pc = "start"
    /\ \E RP \in PointLists, prm \in ClusterParams :
          cl' = [ RP |-> RP, eps |-> prm[1], min_samples |-> prm[2],
                  clusters |-> cluster_reaction_points(RP, prm[1], prm[2], "ascending"),
                  order |-> "ascending", again |-> <<>> ]
    /\ pc' = "clustered"
    /\ UNCHANGED <<engine, df, ret, summary, feed, news, inputs_log, sales_last_scan,
                   scan, market, next_tx, filtered, probe, ai,
                   tracker,
                   sq,
                   acct,
                   concierge_log,
                   rooms_log,
                   next_room>>

Recluster ==
    /\ pc = "clustered"
    /\ \E order \in ListOrders :
          cl' = [ cl EXCEPT !.order = order,
                            !.again = cluster_reaction_points(cl.RP, cl.eps, cl.min_samples, order) ]
    /\ pc' = "reclustered"
    /\ UNCHANGED <<engine, df, ret, summary, feed, news, inputs_log, sales_last_scan,
                   scan, market, next_tx, filtered, probe, ai,
                   tracker,
                   sq,
                   acct,
                   concierge_log,
                   rooms_log,
                   next_room>>

AdvanceFrame ==
    /\ pc \in {"start", "tracking"}
    /\ Len(tracker.seen) < MaxFrames
    /\ \E RP \in FramePoints :
          \E t \in {advance_frame(FrameClusters(RP), tracker.registry, tracker.next_id,
                                  DistThresh)} :
              tracker' = [ registry    |-> t.registry,
                           next_id     |-> t.next_id,
                           seen        |-> Append(tracker.seen, RP),
                           annotations |-> t.annotations,
                           born        |-> t.born,
                           died        |-> t.died,
                           prev        |-> tracker.registry,
                           claims      |-> t.claims,
                           issued      |-> tracker.issued \cup tracker.born,
                           retired     |-> tracker.retired \cup tracker.died ]
    /\ pc' = "tracking"
    /\ UNCHANGED <<engine, df, ret, summary, feed, news, inputs_log, sales_last_scan,
                   scan, market, next_tx, filtered, probe, ai, cl,
                   sq,
                   acct,
                   concierge_log,
                   rooms_log,
                   next_room>>

SquareInit ==
    /\ pc = "start"
    /\ \E size \in SquareSizes :
          \E grid \in InitialGrids(size) :
              sq' = [ size |-> size, grid |-> grid, last |-> grid,
                      noise |-> [i \in 1..size |-> [j \in 1..size |-> 0]], steps |-> 0 ]
    /\ pc' = "square"
    /\ UNCHANGED <<engine, df, ret, summary, feed, news, inputs_log, sales_last_scan,
                   scan, market, next_tx, filtered, probe, ai, cl, tracker,
                   acct,
                   concierge_log,
                   rooms_log,
                   next_room>>

SquareStep ==
    /\ pc = "square"
    /\ sq.steps < MaxSteps
    /\ \E noise \in NoiseFields(sq.size) :
          sq' = [ sq EXCEPT !.grid = SquareStepGrid(sq.grid, sq.size, noise),
                            !.last = sq.grid,
                            !.noise = noise,
                            !.steps = @ + 1 ]
    /\ UNCHANGED <<pc, engine, df, ret, summary, feed, news, inputs_log, sales_last_scan,
                   scan, market, next_tx, filtered, probe, ai, cl, tracker,
                   acct,
                   concierge_log,
                   rooms_log,
                   next_room>>

ApplyManualChange ==
    /\ pc \in {"start", "accounts"}
    /\ acct.ops < MaxOps
    /\ \E typed \in ManualTickers, qty \in ManualQtys, px \in ManualPrices :
          LET t == Upper(typed)
          IN  IF t = "" \/ qty = 0 \/ px <= 0
              THEN acct' = [ acct EXCEPT !.ops = @ + 1,
                                         !.last = [ kind |-> "warning", before |-> acct.portfolio ] ]
              ELSE acct' = [ portfolio |-> upsert(acct.portfolio, t, qty, px),
                             trade_log |-> log_trade(acct.trade_log,
                                                     IF qty > 0 THEN "BUY" ELSE "SELL", t, qty, px),
                             ops       |-> acct.ops + 1,
                             last      |-> [ kind |-> "manual", before |-> acct.portfolio,
                                             ticker |-> t, qty |-> qty, px |-> px ] ]
    /\ pc' = "accounts"
    /\ UNCHANGED <<engine, df, ret, summary, feed, news, inputs_log, sales_last_scan,
                   scan, market, next_tx, filtered, probe, ai, cl, tracker, sq,
                   concierge_log,
                   rooms_log,
                   next_room>>

ExecutePlan ==
    /\ pc \in {"start", "accounts"}
    /\ acct.ops < MaxOps
    /\ \E plan \in Plans, limits \in RiskLimits :
          \E x \in {execute_plan(plan, limits, acct.portfolio, acct.trade_log)} :
              acct' = [ portfolio |-> x.portfolio,
                        trade_log |-> x.trade_log,
                        ops       |-> acct.ops + 1,
                        last      |-> [ kind |-> "execute", before |-> acct.portfolio,
                                        plan |-> plan, limits |-> limits,
                                        actions_done |-> x.actions_done,
                                        trades |-> x.trades ] ]
    /\ pc' = "executed"
    /\ UNCHANGED <<engine, df, ret, summary, feed, news, inputs_log, sales_last_scan,
                   scan, market, next_tx, filtered, probe, ai, cl, tracker, sq,
                   concierge_log,
                   rooms_log,
                   next_room>>

\* the page whose handler ran last
PipelineStages == {"doorman", "concierge", "reception", "newsdesk"}

DoormanSubmit ==
    /\ pc \in {"start"} \cup PipelineStages
    /\ Len(inputs_log) < MaxInputs
    /\ \E i \in DoormanInputs :
          LET r == doorman_submit(i.text, i.file, inputs_log, next_tx)
          IN  /\ inputs_log' = r.log
              /\ next_tx' = r.tx
    /\ pc' = "doorman"
    /\ UNCHANGED <<engine, df, ret, summary, feed, news, sales_last_scan, scan, market,
                   filtered, probe, ai, cl, tracker, sq, acct, concierge_log,
                   rooms_log, next_room>>

ConciergeRun ==
    /\ pc \in {"start"} \cup PipelineStages
    /\ LET r == concierge_run(inputs_log, concierge_log, next_room)
       IN  /\ concierge_log' = r.log
           /\ next_room' = r.room
    /\ pc' = "concierge"
    /\ UNCHANGED <<engine, df, ret, summary, feed, news, inputs_log, sales_last_scan,
                   scan, market, next_tx, filtered, probe, ai, cl, tracker, sq, acct,
                   rooms_log>>

AllocateRooms ==
    /\ pc \in {"start"} \cup PipelineStages
    /\ rooms_log' = allocate_rooms(concierge_log, rooms_log)
    /\ pc' = "reception"
    /\ UNCHANGED <<engine, df, ret, summary, feed, news, inputs_log, sales_last_scan,
                   scan, market, next_tx, filtered, probe, ai, cl, tracker, sq, acct,
                   concierge_log, next_room>>

PullNews ==
    /\ pc \in {"start"} \cup PipelineStages
    /\ \E feeds \in [{"AAPL", "MSFT"} \cap Range(tickers_in_house(rooms_log)) -> PulledFeeds] :
          LET r == run_news(rooms_log, feeds, inputs_log, next_tx)
          IN  /\ inputs_log' = r.log
              /\ next_tx' = r.tx
    /\ pc' = "newsdesk"
    /\ UNCHANGED <<engine, df, ret, summary, feed, news, sales_last_scan, scan, market,
                   filtered, probe, ai, cl, tracker, sq, acct, concierge_log,
                   rooms_log, next_room>>

Next ==
    \/ LoadFrame \/ SafeHistory \/ Calculate \/ Summarize \/ SafeNews \/ RunScan
    \/ ApplyNewsFilter \/ TrapProbe \/ SledRun
    \/ Cluster \/ Recluster \/ AdvanceFrame
    \/ SquareInit \/ SquareStep
    \/ ApplyManualChange \/ ExecutePlan
    \/ DoormanSubmit \/ ConciergeRun \/ AllocateRooms \/ PullNews

Spec == Init /\ [][Next]_vars

\* the pipeline on a session that holds inputs of the Sales page
SessionInit ==
    /\ pc = "start"
    /\ engine \in Engines
    /\ df = None
    /\ ret = None
    /\ summary = None
    /\ feed = None
    /\ news = None
    /\ inputs_log \in SalesSessions
    /\ sales_last_scan = <<>>
    /\ scan = "idle"
    /\ market = None
    /\ next_tx = Len(inputs_log)
    /\ filtered = None
    /\ probe = None
    /\ ai = None
    /\ cl = None
    /\ tracker = [ registry |-> <<>>, next_id |-> 0, seen |-> <<>>, annotations |-> <<>>,
                   born |-> {}, died |-> {}, prev |-> <<>>, claims |-> <<>>,
                   issued |-> {}, retired |-> {} ]
    /\ sq = None
    /\ acct = [portfolio |-> <<>>, trade_log |-> <<>>, ops |-> 0, last |-> None]
    /\ concierge_log = <<>>
    /\ rooms_log = <<>>
    /\ next_room = 0

SessionNext == DoormanSubmit \/ ConciergeRun \/ AllocateRooms \/ PullNews

SessionSpec == SessionInit /\ [][SessionNext]_vars

-----------------------------------------------------------------------------
(* Properties *)

Calculated == pc \in {"calculated", "summarized"} /\ ret = Ref

Rows == 1..NumRows(df)

InUnit(x) == x >= 0 /\ x <= FP

\* C1 as stated: on every row of every valid series calculate's values
\* satisfy Z_Trap in [0,1], Sigma >= 0, Gate >= 0 and Price_Loc in [0,1].
C1_AllValuesInRange ==
    Calculated =>
        \A i \in Rows :
            /\ InUnit(df["Z_Trap"][i])
            /\ df["Sigma"][i] >= 0
            /\ df["Gate"][i] >= 0
            /\ InUnit(df["Price_Loc"][i])

\* C1 amended: Z_Trap and Gate are undefined on the rows before row
\* window + lookback - 1, Sigma before row window and Price_Loc before row
\* 50; every defined Z_Trap and Price_Loc is in [0,1] and every defined
\* Sigma and Gate is >= 0.
C1_DefinedValuesInRange ==
    Calculated =>
        \A i \in Rows :
            LET z == df["Z_Trap"][i]
                sg == df["Sigma"][i]
                g == df["Gate"][i]
                pl == df["Price_Loc"][i]
            IN  /\ IsNaN(z) <=> i < engine.window + engine.lookback - 1
                /\ IsNaN(sg) <=> i < engine.window
                /\ IsNaN(g) <=> i < engine.window + engine.lookback - 1
                /\ IsNaN(pl) <=> i < PriceLocWindow
                /\ ~IsNaN(z) => InUnit(z)
                /\ ~IsNaN(sg) => sg >= 0
                /\ ~IsNaN(g) => g >= 0
                /\ ~IsNaN(pl) => InUnit(pl)

\* C1 witness: a calculated row whose four values are all defined, with
\* Z_Trap strictly inside (0,1) and Sigma and Gate positive.
C1_InteriorRow ==
    Calculated /\
        \E i \in Rows :
            /\ df["Z_Trap"][i] > 0 /\ df["Z_Trap"][i] < FP
            /\ df["Sigma"][i] > 0
            /\ df["Gate"][i] > 0
            /\ ~IsNaN(df["Price_Loc"][i])

\* C2: a non-empty series shorter than window goes through calculate and
\* summarize without an exception and yields signal WAIT, no Z_Trap, no
\* Gate, a zero RiseScore and no bullseye flag.
C2_ShortSeriesNeutral ==
    (pc = "summarized" /\ "Close" \in DOMAIN df /\ NumRows(df) > 0
        /\ NumRows(df) < engine.window /\ df["Close"][1] # NonNumeric) =>
        /\ ret = Ref
        /\ summary # None
        /\ summary.Signal = "WAIT"
        /\ IsNaN(summary.Z_Trap)
        /\ IsNaN(summary.Gate)
        /\ summary.RiseScore_14d = 0
        /\ ~summary.Bullseye_BUY
        /\ ~summary.Bullseye_SELL
        /\ \A i \in Rows : df["Signal_Buy"][i] = 0 /\ df["Signal_Sell"][i] = 0

\* C2 witness: a summarized series of two rows under a window of three.
C2_ShortSeriesSummarized ==
    /\ pc = "summarized"
    /\ engine.window = 3
    /\ NumRows(df) = 2
    /\ summary # None
    /\ df["Close"][2] # df["Close"][1]

\* the ticker's history goes through calculate and summarize to a snapshot
ValidSummary(o, eng) == ScanSummary(o, eng) # None

\* C3: a Sales scan of a universe with a ticker that has a valid summary
\* completes, and inputs_log holds an entry for every ticker that has a
\* valid summary.
C3_ScanRecordsEveryTicker ==
    (pc = "scanned" /\ \E k \in DOMAIN UNIVERSE : ValidSummary(market[UNIVERSE[k]], engine)) =>
        /\ scan = "complete"
        /\ \A k \in DOMAIN UNIVERSE :
              ValidSummary(market[UNIVERSE[k]], engine) =>
                  \E e \in DOMAIN inputs_log : inputs_log[e].Ticker = UNIVERSE[k]

\* C4: calculate leaves the caller's frame, its columns and its values, as
\* it was.
C4_InputUnchanged == [][(pc = "loaded" /\ pc' = "calculated") => df' = df]_vars

\* C5: on every row Gate is the product of (1 - Z_Trap) and Sigma, undefined
\* when either is, and the snapshot's Gate is the last row's Gate rounded to
\* four places.
C5_GateIsProduct ==
    Calculated =>
        /\ \A i \in Rows :
              LET z == df["Z_Trap"][i]
                  sg == df["Sigma"][i]
              IN  df["Gate"][i] = IF IsNaN(z) \/ IsNaN(sg) THEN NaN
                                  ELSE ((FP - z) * sg) \div FP
        /\ (pc = "summarized" /\ NumRows(df) > 0) =>
              summary.Gate = Round4(df["Gate"][NumRows(df)])

\* C5 witness: a snapshot with a positive Gate from a last row whose Z_Trap
\* is strictly inside (0,1).
C5_PositiveGateSnapshot ==
    /\ pc = "summarized"
    /\ ret = Ref
    /\ NumRows(df) > 0
    /\ summary.Gate > 0
    /\ df["Z_Trap"][NumRows(df)] > 0
    /\ df["Z_Trap"][NumRows(df)] < FP

\* 0.25 * 1.5 * log2(entropy_bins), the supremum of Gate under a signal, is
\* below the bullseye threshold 1.6
GateCeilingBelowBullseye(eng) ==
    (100 - ZTrapPhasePct) * 3 * Log2FP(eng.entropy_bins) * 10 < 100 * 2 * BullGateTenths * FP

\* C25: Sigma never exceeds 1.5 * log2(entropy_bins); a row with a BUY or
\* SELL signal has Z_Trap > 0.75 and so Gate <= Sigma / 4; for the app's
\* engine (window 20, 10 bins) that ceiling is below 1.6, and no snapshot
\* has Bullseye_BUY or Bullseye_SELL true.
C25_SignalKeepsGateBelowBullseye ==
    /\ GateCeilingBelowBullseye(AppEngine)
    /\ AppEngine.entropy_bins <= AppEngine.window
    /\ Calculated =>
          /\ GateCeilingBelowBullseye(engine)
          /\ \A i \in Rows :
                /\ ~IsNaN(df["Sigma"][i]) =>
                      /\ df["Sigma"][i] >= 0
                      /\ 2 * df["Sigma"][i] <= 3 * Log2FP(engine.entropy_bins)
                /\ (df["Signal_Buy"][i] = 1 \/ df["Signal_Sell"][i] = 1) =>
                      /\ df["Z_Trap"][i] * 100 > ZTrapPhasePct * FP
                      /\ df["Z_Trap"][i] <= FP
                      /\ ~IsNaN(df["Gate"][i])
                      /\ 100 * df["Gate"][i] <= (100 - ZTrapPhasePct) * df["Sigma"][i]
    /\ (pc = "summarized" /\ summary # None) =>
          /\ ~summary.Bullseye_BUY
          /\ ~summary.Bullseye_SELL

\* C25 witness: a BUY or SELL snapshot whose Gate is positive, not flagged
\* bullseye.
C25_SignalWithOpenGate ==
    /\ pc = "summarized"
    /\ summary # None
    /\ summary.Signal \in {"BUY", "SELL"}
    /\ summary.Gate > 0
    /\ ~summary.Bullseye_BUY /\ ~summary.Bullseye_SELL

ConstantPrice == \A i \in Rows : df["Close"][i] = df["Close"][1]

LongConstant ==
    /\ pc = "summarized"
    /\ ret = Ref
    /\ NumRows(df) > engine.window + engine.lookback
    /\ ConstantPrice

\* the volume of the last window rows varies
VolumeVaries ==
    /\ has_vol(df)
    /\ \E i \in WindowRows(NumRows(df), engine.window) :
          df["Volume"][i] # df["Volume"][NumRows(df)]

\* C6 as stated: a constant-price series longer than window + lookback
\* yields Sigma 0, Z_Trap 1, Gate 0 and signal WAIT.
C6_ConstantSeriesSigmaZero ==
    LongConstant =>
        /\ df["Sigma"][NumRows(df)] = 0
        /\ df["Z_Trap"][NumRows(df)] = FP
        /\ df["Gate"][NumRows(df)] = 0
        /\ summary.Signal = "WAIT"

\* C6 amended: a constant-price series longer than window + lookback yields
\* Z_Trap 1, Gate 0 and signal WAIT; its Sigma is 0 unless the volume of the
\* last window rows varies, and is positive when it does.
C6_ConstantSeriesTrapped ==
    LongConstant =>
        /\ df["Z_Trap"][NumRows(df)] = FP
        /\ df["Gate"][NumRows(df)] = 0
        /\ summary.Signal = "WAIT"
        /\ summary.Z_Trap = 10000
        /\ summary.Gate = 0
        /\ ~summary.Bullseye_BUY /\ ~summary.Bullseye_SELL
        /\ IF VolumeVaries THEN df["Sigma"][NumRows(df)] > 0
                           ELSE df["Sigma"][NumRows(df)] = 0

\* C6 witness: a summarized constant-price series longer than window +
\* lookback whose volume varies.
C6_ConstantSeriesWithFlow == LongConstant /\ VolumeVaries

DefinedCells(col) ==
    LET Defined(x) == ~IsNaN(x)
    IN  SelectSeq(col, Defined)

\* C7: on a series of fewer than 200 rows phase-0 is decided against the
\* 85th percentile of the whole series' Sigma, and BUY and SELL follow from
\* it.
C7_FallbackThreshold ==
    (Calculated /\ NumRows(df) >= engine.window /\ NumRows(df) < EntThreshWindow) =>
        LET thresh == Quantile(DefinedCells(df["Sigma"]), EntThreshPct)
        IN  \A i \in Rows :
                LET ph == IsPhase0(df["Z_Trap"][i], df["Sigma"][i], thresh)
                IN  /\ df["Signal_Buy"][i] = SignalBuy(ph, df["Price_Loc"][i])
                    /\ df["Signal_Sell"][i] = SignalSell(ph, df["Price_Loc"][i])

\* the last row's Gate is in the top 15% of the defined Gates of the last
\* 120 rows
GateInTop15 ==
    LET n == NumRows(df)
        trailing == DefinedCells(SubSeq(df["Gate"], IF n > 120 THEN n - 119 ELSE 1, n))
    IN  /\ ~IsNaN(df["Gate"][n])
        /\ df["Gate"][n] >= Quantile(trailing, 85)

\* C8: a BUY or SELL snapshot is flagged bullseye exactly when the Gate is in
\* the top 15% of its trailing 120 rows and Z_Trap <= 0.85; a WAIT snapshot
\* is never flagged.
C8_BullseyeTopOfTrailing ==
    (pc = "summarized" /\ summary # None) =>
        LET z == df["Z_Trap"][NumRows(df)]
            strong == GateInTop15 /\ ~IsNaN(z) /\ z * 100 <= 85 * FP
        IN  /\ summary.Bullseye_BUY <=> (summary.Signal = "BUY" /\ strong)
            /\ summary.Bullseye_SELL <=> (summary.Signal = "SELL" /\ strong)

Malformed(d) ==
    \/ "Close" \notin DOMAIN d
    \/ NumRows(d) = 0
    \/ \E i \in 1..NumRows(d) : d["Close"][i] = NonNumeric

\* C9: a malformed series (no Close column, non-numeric, empty) ends in an
\* outcome other than None, the value safe_history gives for an unavailable
\* source, and other than a WAIT snapshot.
C9_MalformedRejectedDistinctly ==
    (pc = "summarized" /\ Malformed(df)) =>
        /\ ret # None
        /\ summary # None
        /\ summary.Signal # "WAIT"

\* C10: safe_news lets no exception through, and returns the empty list when
\* the source fails or gives nothing.
C10_NewsNeverRaises ==
    pc = "news" =>
        /\ ~news.raised
        /\ feed.kind # "items" => news.items = <<>>

\* C11: apply_news_filter returns the (upper-cased) input signal or WAIT;
\* it returns WAIT whenever the input is WAIT or empty, cancels BUY exactly
\* when some item is NEGATIVE and SELL exactly when some item is POSITIVE.
C11_NewsConfirmsOrCancels ==
    pc = "filtered" =>
        LET sig == Upper(filtered.signal)
            out == filtered.out.signal
            Some(sn) == \E i \in DOMAIN filtered.news :
                            /\ "sentiment" \in DOMAIN filtered.news[i]
                            /\ filtered.news[i].sentiment = sn
        IN  /\ out \in {sig, "WAIT"}
            /\ sig \in {"", "WAIT"} => out = "WAIT"
            /\ sig = "BUY" => (out = "WAIT" <=> Some("NEGATIVE"))
            /\ sig = "SELL" => (out = "WAIT" <=> Some("POSITIVE"))

\* C11 witness: a BUY given in lower case, cancelled by a NEGATIVE item that
\* follows a POSITIVE one.
C11_BuyCancelled ==
    /\ pc = "filtered"
    /\ filtered.signal = "buy"
    /\ Len(filtered.news) = 2
    /\ filtered.news[1] = [title |-> {}, sentiment |-> "POSITIVE"]
    /\ filtered.news[2] = [title |-> {}, sentiment |-> "NEGATIVE"]
    /\ filtered.out.signal = "WAIT"

\* C12: once any row has a defined Sigma, every earlier row has a defined
\* Sigma too (undefined entropy is backfilled).
C12_SigmaBackfilled ==
    Calculated =>
        \A i \in Rows :
            ~IsNaN(df["Sigma"][i]) => \A j \in 1..i : ~IsNaN(df["Sigma"][j])

\* C13: with the other rows of the lookback window fixed, a strictly larger
\* most recent Rolling_Std never gives a larger Z_Trap.
C13_TrapMonotone == pc = "probed" => probe.z_hi <= probe.z_lo

\* C13 witness: a window where the larger volatility gives a strictly
\* smaller Z_Trap, both strictly inside (0,1).
C13_TrapStrictlyFalls ==
    /\ pc = "probed"
    /\ probe.z_hi < probe.z_lo
    /\ probe.z_hi > 0
    /\ probe.z_lo < FP

\* C14: run returns status 'answer' only if the coherence of the last pass
\* computed is at least probing_threshold; otherwise it returns status
\* 'probing' with a non-empty list of probing questions; never both.
C14_AnswerOnlyWhenStable ==
    pc = "ran" =>
        LET r == ai.result
        IN  /\ r.coherence_state = compute_coherence(r.background, ai.passes)
            /\ r.status \in {"answer", "probing"}
            /\ r.status = "answer" <=>
                   CoherenceAtLeast(r.coherence_state, ai.config.probing_threshold)
            /\ r.status = "answer" =>
                   "answer" \in DOMAIN r /\ "probing_questions" \notin DOMAIN r
            /\ r.status = "probing" =>
                   /\ "answer" \notin DOMAIN r
                   /\ "probing_questions" \in DOMAIN r
                   /\ Len(r.probing_questions) >= 1

\* C14 witness: with the default configuration a second pass lifts the
\* coherence over both thresholds and run answers.
C14_AnswerAfterSecondPass ==
    /\ pc = "ran"
    /\ ai.config = DefaultConfig
    /\ ai.passes = 2
    /\ ai.result.status = "answer"
    /\ CoherenceAtLeast(ai.result.coherence_state, probing_threshold)

\* C15: with the default configuration, whenever the loop stops because a
\* pass reached coherence >= truth_threshold, run returns status 'answer'.
C15_TruthStopAnswers ==
    (/\ pc = "ran"
     /\ ai.config = DefaultConfig
     /\ CoherenceAtLeast(ai.result.coherence_state, truth_threshold))
        => ai.result.status = "answer"

\* the clusters of the last call, and of its repetition, as sets of indices
Memberships(clusters) == {Range(clusters[k].members) : k \in DOMAIN clusters}

Clustered == pc \in {"clustered", "reclustered"}

\* C16 (as stated): every returned cluster holds every point within eps of
\* any of its members, whatever that member's own density.
C16_FullTransitiveClosure ==
    Clustered =>
        \A K \in Memberships(cl.clusters) :
            \A m \in K : Neighbours(cl.RP, m, cl.eps) \subseteq K

\* C16 (amended): every returned cluster holds the seed's neighbourhood and
\* every point within eps of any of its dense members, and nothing else: each
\* member is the seed or lies within eps of a dense member; with
\* min_samples <= 3 every member that has a neighbour outside would be dense,
\* so there the cluster is the full closure.
C16_ClosureThroughDenseMembers ==
    Clustered =>
        \A k \in DOMAIN cl.clusters :
            LET K == Range(cl.clusters[k].members)
                D == {m \in K : Dense(cl.RP, m, cl.eps, cl.min_samples)}
            IN  /\ cl.clusters[k].seed \in D
                /\ \A m \in D : Neighbours(cl.RP, m, cl.eps) \subseteq K
                /\ \A j \in K : \E m \in D : j \in Neighbours(cl.RP, m, cl.eps)
                /\ cl.min_samples <= 3 =>
                       \A m \in K : Neighbours(cl.RP, m, cl.eps) \subseteq K

\* C16 witness: the growth of a cluster stopped at a member that is not
\* dense and has a neighbour left outside.
C16_StoppedAtSparseMember ==
    /\ pc = "clustered"
    /\ \E k \in DOMAIN cl.clusters :
          LET K == Range(cl.clusters[k].members)
          IN  \E m \in K : /\ ~Dense(cl.RP, m, cl.eps, cl.min_samples)
                           /\ ~(Neighbours(cl.RP, m, cl.eps) \subseteq K)

\* C24: the clusters returned by cluster_reaction_points are pairwise
\* disjoint: no point index belongs to two of the emitted clusters.
C24_ClustersPairwiseDisjoint ==
    Clustered =>
        \A k1, k2 \in DOMAIN cl.clusters :
            k1 # k2 => Range(cl.clusters[k1].members) \cap Range(cl.clusters[k2].members) = {}

InSomeCluster(i) == \E K \in Memberships(cl.clusters) : i \in K

Sparse(i) == ~Dense(cl.RP, i, cl.eps, cl.min_samples)

NearDense(i) ==
    \E d \in DOMAIN cl.RP : /\ Dense(cl.RP, d, cl.eps, cl.min_samples)
                            /\ i \in Neighbours(cl.RP, d, cl.eps)

\* C17 (as stated): a point whose eps-neighbourhood (itself included) holds
\* fewer than min_samples points is a member of no returned cluster.
C17_SparsePointsInNoCluster ==
    Clustered => \A i \in DOMAIN cl.RP : Sparse(i) => ~InSomeCluster(i)

\* C17 (amended): a point whose eps-neighbourhood holds fewer than
\* min_samples points never seeds a cluster, and it is a member of a returned
\* cluster exactly when it lies within eps of a dense point; only the sparse
\* points out of reach of every dense point are ignored as noise.
C17_NoiseOutOfDenseReach ==
    Clustered =>
        \A i \in DOMAIN cl.RP :
            Sparse(i) =>
                /\ \A k \in DOMAIN cl.clusters : cl.clusters[k].seed # i
                /\ InSomeCluster(i) <=> NearDense(i)

\* C17 witness: one call that returns a cluster with a sparse border point
\* in it and leaves another sparse point out of every cluster.
C17_BorderKeptNoiseDropped ==
    /\ pc = "clustered"
    /\ \E i, j \in DOMAIN cl.RP :
          /\ Sparse(i) /\ InSomeCluster(i)
          /\ Sparse(j) /\ ~InSomeCluster(j)

\* C18: calling cluster_reaction_points again on the same (points, eps,
\* min_samples) returns the same cluster memberships, in whatever order the
\* members of a growing cluster are walked, and the loop that grows a cluster
\* terminates: every pass but the last adds a point, so a cluster is grown in
\* at most as many passes as there are points.
C18_SameMembershipsAndTermination ==
    /\ Clustered =>
           \A k \in DOMAIN cl.clusters :
               /\ cl.clusters[k].passes >= 1
               /\ cl.clusters[k].passes <= Len(cl.RP)
    /\ pc = "reclustered" =>
           /\ Len(cl.again) = Len(cl.clusters)
           /\ \A k \in DOMAIN cl.again :
                  /\ Range(cl.again[k].members) = Range(cl.clusters[k].members)
                  /\ cl.again[k].passes <= Len(cl.RP)

\* C18 witness: the second call walked the members the other way round and
\* returned a cluster that took two passes and holds a point out of its
\* seed's reach.
C18_ReclusteredGrownCluster ==
    /\ pc = "reclustered"
    /\ cl.order = "descending"
    /\ \E k \in DOMAIN cl.again :
          /\ cl.again[k].passes >= 2
          /\ cl.again[k].members # cl.clusters[k].members
          /\ ~(Range(cl.again[k].members)
                   \subseteq Neighbours(cl.RP, cl.again[k].seed, cl.eps))

LiveIds == {tracker.registry[k].id : k \in DOMAIN tracker.registry}

Kinds == [k \in DOMAIN tracker.annotations |-> tracker.annotations[k].kind]

\* C19: over any sequence of frames, an object that was unmatched in a frame
\* (die) never reappears under the same id, and every birth gets an id
\* strictly greater than every id issued before, also when the new cluster
\* sits where a dead object was.
C19_NoResurrectionFreshIds ==
    pc = "tracking" =>
        /\ LiveIds \cap (tracker.retired \cup tracker.died) = {}
        /\ \A j, k \in DOMAIN tracker.registry :
               tracker.registry[j].id = tracker.registry[k].id => j = k
        /\ \A b \in tracker.born : \A i \in tracker.issued : b > i
        /\ \A k \in DOMAIN tracker.registry :
               tracker.registry[k].age = 1 <=> tracker.registry[k].id \in tracker.born

\* C19 witness: an object died in the second frame and the third frame holds
\* a cluster on the very spot, born under a new id.
C19_RebornOnTheSpot ==
    /\ pc = "tracking"
    /\ tracker.seen = <<GroupD, <<>>, GroupD>>
    /\ tracker.retired = {0}
    /\ tracker.born = {1}
    /\ tracker.registry[1].member_points = GroupD

SingleObjectScenario(X) == <<X, X, X, <<>>, X>>

\* C20: one cluster at the same location in frames 1-3 and absent in frame 4
\* gives birth at frame 1 (id 0, age 1), survive at frames 2 and 3 (age 2,
\* then 3), die at frame 4 leaving an empty registry; a cluster at the same
\* location in frame 5 is born with id 1 and age 1.
C20_SingleObjectScenario ==
    \A X \in {GroupA, GroupD} :
        LET n == Len(tracker.seen)
            One(id, age) == /\ Len(tracker.registry) = 1
                            /\ tracker.registry[1].id = id
                            /\ tracker.registry[1].age = age
                            /\ tracker.registry[1].member_points = X
        IN  (/\ pc = "tracking"
             /\ n <= Len(SingleObjectScenario(X))
             /\ tracker.seen = SubSeq(SingleObjectScenario(X), 1, n)) =>
                /\ n = 1 => One(0, 1) /\ Kinds = <<"birth">>
                /\ n \in {2, 3} => One(0, n) /\ Kinds = <<"survive">>
                /\ n = 4 => tracker.registry = <<>> /\ Kinds = <<"die">>
                /\ n = 5 => One(1, 1) /\ Kinds = <<"birth">>

\* C20 witness: the fifth frame of the scenario has been tracked.
C20_ScenarioPlayedOut ==
    /\ pc = "tracking"
    /\ tracker.seen = SingleObjectScenario(GroupA)
    /\ Len(tracker.registry) = 1
    /\ tracker.registry[1].id = 1
    /\ tracker.next_id = 2

LastClusters == FrameClusters(tracker.seen[Len(tracker.seen)])

Count(q, x) == Cardinality({k \in DOMAIN q : q[k] = x})

\* C21: matching is greedy in registry insertion order: each previous object
\* claims the nearest still-unclaimed current cluster, the match is accepted
\* only if the centroid distance is <= dist_thresh, no current cluster is
\* claimed by two objects, and every frame partitions the previous objects
\* into survive/die and the current clusters into survive/birth.
C21_GreedyMatching ==
    pc = "tracking" =>
        LET cs   == LastClusters
            prev == tracker.prev
            c    == tracker.claims
            reg  == tracker.registry
            d(i, k) == CentroidDist2(prev[i].centroid, Centroid(cs[k]))
            near(i, k) == WithinThresh(prev[i].centroid, Centroid(cs[k]), DistThresh)
            free(i) == DOMAIN cs \ {c[j] : j \in 1..(i - 1)}
            survivors == {i \in DOMAIN prev : c[i] # 0}
        IN  /\ DOMAIN c = DOMAIN prev
            /\ \A i \in DOMAIN prev :
                   /\ c[i] # 0 => /\ c[i] \in free(i)
                                  /\ \A k \in free(i) : ~FracLess(d(i, k), d(i, c[i]))
                                  /\ near(i, c[i])
                   /\ c[i] = 0 => \A k \in free(i) : ~near(i, k)
            /\ \A i, j \in survivors : c[i] = c[j] => i = j
            /\ \A i \in DOMAIN prev :
                   IF i \in survivors
                   THEN /\ prev[i].id \notin tracker.died
                        /\ \E k \in DOMAIN reg : /\ reg[k].id = prev[i].id
                                                 /\ reg[k].age = prev[i].age + 1
                                                 /\ reg[k].member_points = cs[c[i]]
                                                 /\ reg[k].centroid = Centroid(cs[c[i]])
                   ELSE /\ prev[i].id \in tracker.died
                        /\ \A k \in DOMAIN reg : reg[k].id # prev[i].id
            /\ Len(reg) = Len(cs)
            /\ Cardinality(tracker.born) = Len(cs) - Cardinality(survivors)
            /\ \A k \in DOMAIN cs :
                   (\A i \in survivors : c[i] # k) =>
                       \E j \in DOMAIN reg : /\ reg[j].id \in tracker.born
                                             /\ reg[j].age = 1
                                             /\ reg[j].member_points = cs[k]
            /\ Count(Kinds, "survive") = Cardinality(survivors)
            /\ Count(Kinds, "die") = Len(prev) - Cardinality(survivors)
            /\ Count(Kinds, "birth") = Cardinality(tracker.born)

\* C21 witness: two live objects within dist_thresh of the frame's only
\* cluster: the first in insertion order claims it, though the second sits
\* on it, and the second dies.
C21_FirstObjectTakesTheCluster ==
    /\ pc = "tracking"
    /\ Len(tracker.prev) = 2
    /\ Len(LastClusters) = 1
    /\ tracker.claims = <<1, 0>>
    /\ tracker.prev[2].centroid = Centroid(LastClusters[1])
    /\ tracker.prev[1].centroid # Centroid(LastClusters[1])
    /\ Kinds = <<"survive", "die">>

\* the cell of the last grid that lies di rows and dj columns from (i, j) on
\* the torus
Torus(i, j, di, dj) ==
    sq.last[((i - 1 + di + sq.size) % sq.size) + 1][((j - 1 + dj + sq.size) % sq.size) + 1]

\* C22: after construction and after any number of Square.step calls every
\* cell of the grid lies in [0, 1] and the grid keeps its size x size shape,
\* with neighbours taken toroidally: a stepped cell is the kernel-weighted sum
\* of the nine cells around it on the torus, plus its noise, clipped.
C22_CellsInUnitToroidal ==
    pc = "square" =>
        /\ DOMAIN sq.grid = 1..sq.size
        /\ \A i \in 1..sq.size :
               /\ DOMAIN sq.grid[i] = 1..sq.size
               /\ \A j \in 1..sq.size :
                      /\ sq.grid[i][j] >= 0
                      /\ sq.grid[i][j] <= CellUnit
                      /\ sq.steps > 0 =>
                             LET w == 8 * Torus(i, j, 0, 0)
                                      + 2 * (Torus(i, j, 0 - 1, 0) + Torus(i, j, 1, 0)
                                             + Torus(i, j, 0, 0 - 1) + Torus(i, j, 0, 1))
                                      + (Torus(i, j, 0 - 1, 0 - 1) + Torus(i, j, 0 - 1, 1)
                                         + Torus(i, j, 1, 0 - 1) + Torus(i, j, 1, 1))
                                 x == (w \div 20) + sq.noise[i][j]
                             IN  sq.grid[i][j] = IF x < 0 THEN 0
                                                 ELSE IF x > CellUnit THEN CellUnit ELSE x

\* C22 witness: a 3 x 3 grid stepped twice whose corner cell is strictly
\* inside (0, 1), opposite a different cell across the wrap, after a step that
\* clipped another grid's worth of noise before it.
C22_SteppedAcrossTheWrap ==
    /\ pc = "square"
    /\ sq.size = 3
    /\ sq.steps >= 2
    /\ sq.grid[1][1] > 0
    /\ sq.grid[1][1] < CellUnit
    /\ sq.last[3][3] # sq.last[2][2]
    /\ sq.last[1][3] # sq.last[1][2]

\* the quantity and average price a portfolio holds of a ticker (0 if none)
HeldQty(portfolio, t) ==
    IF RowsOf(portfolio, t) = {} THEN 0
    ELSE portfolio[CHOOSE k \in RowsOf(portfolio, t) : TRUE].Qty

HeldAvg(portfolio, t) ==
    IF RowsOf(portfolio, t) = {} THEN 0
    ELSE portfolio[CHOOSE k \in RowsOf(portfolio, t) : TRUE].Avg_Price

\* C28: after any sequence of upsert calls (automated or manual) every
\* holding has Qty > 0 and each ticker appears at most once; a sell that
\* brings the quantity to zero or below removes the position, a sell of a
\* ticker not held leaves the portfolio unchanged, a buy sets Avg_Price to the
\* quantity-weighted average (to the price unit) and a partial sell keeps
\* Avg_Price.
C28_PortfolioWellFormed ==
    pc \in {"accounts", "executed"} =>
        /\ \A k \in DOMAIN acct.portfolio : acct.portfolio[k].Qty > 0
        /\ \A j, k \in DOMAIN acct.portfolio :
               acct.portfolio[j].Ticker = acct.portfolio[k].Ticker => j = k
        /\ acct.last.kind = "manual" =>
               LET old  == acct.last.before
                   new  == acct.portfolio
                   t    == acct.last.ticker
                   q    == acct.last.qty
                   b    == HeldQty(old, t)
                   cost == b * HeldAvg(old, t) + q * acct.last.px
               IN  /\ \A u \in {"MSFT", "AAPL"} \ {t} :
                          /\ HeldQty(new, u) = HeldQty(old, u)
                          /\ HeldAvg(new, u) = HeldAvg(old, u)
                   /\ (q < 0 /\ b = 0) => new = old
                   /\ (q < 0 /\ b + q <= 0) => RowsOf(new, t) = {}
                   /\ (q < 0 /\ b + q > 0) =>
                          HeldQty(new, t) = b + q /\ HeldAvg(new, t) = HeldAvg(old, t)
                   /\ q > 0 =>
                          /\ HeldQty(new, t) = b + q
                          /\ HeldAvg(new, t) * (b + q) <= cost
                          /\ cost < (HeldAvg(new, t) + 1) * (b + q)

\* C28 witness: a manual buy at another price on top of a holding, which
\* moved the average strictly between the two prices.
C28_AveragedBuy ==
    /\ pc = "accounts"
    /\ acct.last.kind = "manual"
    /\ acct.last.qty > 0
    /\ HeldQty(acct.last.before, acct.last.ticker) > 0
    /\ HeldAvg(acct.portfolio, acct.last.ticker) > 100
    /\ HeldAvg(acct.portfolio, acct.last.ticker) < 200

\* C23: execute_plan respects the risk limits on every run: it performs at
\* most max_actions_per_run trades, a BUY never raises a ticker's held
\* quantity above max_qty_per_ticker, a BUY never opens a new position when
\* max_positions tickers are already held, and a SELL never sells more than
\* the quantity held.
C23_RiskLimitsRespected ==
    pc = "executed" =>
        LET lim == acct.last.limits
            trs == acct.last.trades
        IN  /\ Len(trs) <= lim.max_actions_per_run
            /\ Len(trs) = acct.last.actions_done
            /\ \A k \in DOMAIN trs :
                   LET tr   == trs[k]
                       held == HeldQty(tr.held, tr.Ticker)
                   IN  /\ tr.Qty > 0
                       /\ tr.Action = "BUY" =>
                              /\ held + tr.Qty <= lim.max_qty_per_ticker * QtyUnit
                              /\ held = 0 =>
                                     Cardinality(Positions(tr.held)) < lim.max_positions
                       /\ tr.Action = "SELL" => tr.Qty <= held
                       /\ k = 1 => tr.held = acct.last.before
            /\ \A t \in {"MSFT", "AAPL"} :
                   HeldQty(acct.portfolio, t)
                       = HeldQty(acct.last.before, t)
                         + SumTo([k \in DOMAIN trs |->
                                     IF trs[k].Ticker # t THEN 0
                                     ELSE IF trs[k].Action = "BUY" THEN trs[k].Qty
                                     ELSE 0 - trs[k].Qty], Len(trs))

\* C23 witness: a run under a low quantity limit that bought less than the
\* plan asked, whole shares only, on top of a fraction of a share held.
C23_BuyCutToTheLimit ==
    /\ pc = "executed"
    /\ \E k \in DOMAIN acct.last.trades :
          LET tr == acct.last.trades[k]
          IN  /\ tr.Action = "BUY"
              /\ tr.Qty < 10 * QtyUnit
              /\ HeldQty(tr.held, tr.Ticker) > 0
              /\ HeldQty(tr.held, tr.Ticker) + tr.Qty
                     < acct.last.limits.max_qty_per_ticker * QtyUnit

\* the input a log entry refers to
InputOf(e) ==
    CHOOSE k \in DOMAIN inputs_log : inputs_log[k].Transaction_Code = e.Transaction_Code

NoCodeTwice(log) ==
    \A j, k \in DOMAIN log : log[j].Transaction_Code = log[k].Transaction_Code => j = k

\* C27: no Transaction_Code is twice in concierge_log or in rooms_log, every
\* concierge entry has its input, every room has its concierge entry with
\* the same Room_ID; one room id is drawn per concierge entry; a Concierge
\* run leaves no input without an entry, an allocation no concierge entry
\* without a room, and a scan leaves inputs_log alone.
C27_EachInputOncePerStage ==
    /\ NoCodeTwice(concierge_log)
    /\ NoCodeTwice(rooms_log)
    /\ Codes(concierge_log) \subseteq Codes(inputs_log)
    /\ \A r \in DOMAIN rooms_log :
          \E c \in DOMAIN concierge_log :
              /\ concierge_log[c].Transaction_Code = rooms_log[r].Transaction_Code
              /\ concierge_log[c].Room_ID = rooms_log[r].Room_ID
    /\ next_room = Len(concierge_log)
    /\ pc = "concierge" => Codes(concierge_log) = Codes(inputs_log)
    /\ pc = "reception" => Codes(rooms_log) = Codes(concierge_log)
    /\ pc = "scanned" => inputs_log = <<>>

\* C27 witness: two inputs of different categories that went through
\* Concierge and Reception one at a time, the older one holding the first
\* room.
C27_TwoInputsTwoRuns ==
    /\ pc = "reception"
    /\ Len(inputs_log) = 2
    /\ Len(rooms_log) = 2
    /\ \A r \in DOMAIN rooms_log : rooms_log[r].Room_ID = rooms_log[r].Transaction_Code
    /\ rooms_log[1].Category # rooms_log[2].Category

====
